---- MODULE Spec2Model ----
(***************************************************************************)
(* Booking routes over the in-memory booking store                         *)
(* (src/server/routes.ts, src/unnamed/part_001, src/shared/schema.ts).     *)
(*                                                                         *)
(* Every value a request carries is a string, as in the JSON payload.      *)
(* Calendar days are the strings "2025-01-11", "2025-01-12", ...; the      *)
(* empty string is a payload value too, since the request schema asks for  *)
(* a string and nothing more.                                              *)
(*                                                                         *)
(* The second half models the drag selection of the calendar grid          *)
(* (src/client/src/components/calendar/calendar-grid.tsx with the date     *)
(* helpers of src/client/src/lib/calendar-utils.ts): a Date is its time    *)
(* value in seconds, read through the browser's time zone where the code   *)
(* reads local time and as UTC where it formats with toISOString.          *)
(***************************************************************************)
EXTENDS Integers, Sequences, FiniteSets, TLC

\* ---------------------------------------------------------------- bounds
\* number of distinct calendar days a request may name
MaxDay == 2
\* number of identifiers randomUUID() hands out in one behaviour
MaxId == 2
\* number of timers setTimeout() starts in one behaviour
MaxTimers == 2
\* number of selections handed to onDatesSelected in one behaviour
MaxEmissions == 2
\* days from the start to the end of a range asked of getDatesBetween
MaxRange == 4

\* ---------------------------------------------------------------- values
\* JavaScript's undefined: an absent property or an omitted argument
Undefined == "undefined"

DayStr(n) == "2025-01-1" \o ToString(n)
Days == {DayStr(n) : n \in 1..MaxDay}
\* strings the schema accepts for startDate / endDate
DateStrings == Days \cup {""}
\* two of the rooms seeded by initializeRooms, and the empty string
RoomIds == {"green-room", "red-room", ""}
CustomerNames == {"Ann", "Bob"}
BookingIds == {"b" \o ToString(n) : n \in 1..MaxId}

\* the day of the month a day string names
DayOfMonth == [s \in Days |-> 10 + (CHOOSE n \in 1..MaxDay : s = DayStr(n))]

\* days on both sides of the ends of February 2025, for the month queries
MonthDays == {"2025-01-31", "2025-02-01", "2025-02-14", "2025-02-28", "2025-03-01"}
\* how many days after 2025-01-01 such a day is
DayOrdinal ==
  [s \in MonthDays |->
     CASE s = "2025-01-31" -> 30
       [] s = "2025-02-01" -> 31
       [] s = "2025-02-14" -> 44
       [] s = "2025-02-28" -> 58
       [] s = "2025-03-01" -> 59]

SecondsPerDay == 86400

\* ---- calendar arithmetic of Date: days are counted from 2025-01-01 (day 0,
\* a Wednesday), months of the year from 1
Epoch2025 == 20089
\* the number of the day year-month-date
DayNumber(year, month, date) ==
  LET y == IF month <= 2 THEN year - 1 ELSE year
      era == y \div 400
      yoe == y - era * 400
      mp == IF month > 2 THEN month - 3 ELSE month + 9
      doy == (153 * mp + 2) \div 5 + date - 1
      doe == yoe * 365 + yoe \div 4 - yoe \div 100 + doy
  IN era * 146097 + doe - 719468 - Epoch2025
\* the year, month and date of day number day
CivilDate(day) ==
  LET n == day + Epoch2025 + 719468
      era == n \div 146097
      doe == n - era * 146097
      yoe == (doe - doe \div 1460 + doe \div 36524 - doe \div 146096) \div 365
      doy == doe - (365 * yoe + yoe \div 4 - yoe \div 100)
      mp == (5 * doy + 2) \div 153
      month == IF mp < 10 THEN mp + 3 ELSE mp - 9
  IN [year |-> yoe + era * 400 + (IF month <= 2 THEN 1 ELSE 0),
      month |-> month,
      date |-> doy - (153 * mp + 2) \div 5 + 1]
\* the first day of the month `monthIndex` (from 0, and beyond 0..11 as Date
\* carries it into the years around) of `year`
FirstDayOfMonth(year, monthIndex) ==
  DayNumber(year + (monthIndex \div 12), (monthIndex % 12) + 1, 1)

\* the calendar days the client handles, in order: 2024-11-01 .. 2026-01-31
ClientFirstOrdinal == DayNumber(2024, 11, 1)
ClientDayStrings ==
  <<
     "2024-11-01", "2024-11-02", "2024-11-03", "2024-11-04", "2024-11-05",
     "2024-11-06", "2024-11-07", "2024-11-08", "2024-11-09", "2024-11-10",
     "2024-11-11", "2024-11-12", "2024-11-13", "2024-11-14", "2024-11-15",
     "2024-11-16", "2024-11-17", "2024-11-18", "2024-11-19", "2024-11-20",
     "2024-11-21", "2024-11-22", "2024-11-23", "2024-11-24", "2024-11-25",
     "2024-11-26", "2024-11-27", "2024-11-28", "2024-11-29", "2024-11-30",
     "2024-12-01", "2024-12-02", "2024-12-03", "2024-12-04", "2024-12-05",
     "2024-12-06", "2024-12-07", "2024-12-08", "2024-12-09", "2024-12-10",
     "2024-12-11", "2024-12-12", "2024-12-13", "2024-12-14", "2024-12-15",
     "2024-12-16", "2024-12-17", "2024-12-18", "2024-12-19", "2024-12-20",
     "2024-12-21", "2024-12-22", "2024-12-23", "2024-12-24", "2024-12-25",
     "2024-12-26", "2024-12-27", "2024-12-28", "2024-12-29", "2024-12-30",
     "2024-12-31", "2025-01-01", "2025-01-02", "2025-01-03", "2025-01-04",
     "2025-01-05", "2025-01-06", "2025-01-07", "2025-01-08", "2025-01-09",
     "2025-01-10", "2025-01-11", "2025-01-12", "2025-01-13", "2025-01-14",
     "2025-01-15", "2025-01-16", "2025-01-17", "2025-01-18", "2025-01-19",
     "2025-01-20", "2025-01-21", "2025-01-22", "2025-01-23", "2025-01-24",
     "2025-01-25", "2025-01-26", "2025-01-27", "2025-01-28", "2025-01-29",
     "2025-01-30", "2025-01-31", "2025-02-01", "2025-02-02", "2025-02-03",
     "2025-02-04", "2025-02-05", "2025-02-06", "2025-02-07", "2025-02-08",
     "2025-02-09", "2025-02-10", "2025-02-11", "2025-02-12", "2025-02-13",
     "2025-02-14", "2025-02-15", "2025-02-16", "2025-02-17", "2025-02-18",
     "2025-02-19", "2025-02-20", "2025-02-21", "2025-02-22", "2025-02-23",
     "2025-02-24", "2025-02-25", "2025-02-26", "2025-02-27", "2025-02-28",
     "2025-03-01", "2025-03-02", "2025-03-03", "2025-03-04", "2025-03-05",
     "2025-03-06", "2025-03-07", "2025-03-08", "2025-03-09", "2025-03-10",
     "2025-03-11", "2025-03-12", "2025-03-13", "2025-03-14", "2025-03-15",
     "2025-03-16", "2025-03-17", "2025-03-18", "2025-03-19", "2025-03-20",
     "2025-03-21", "2025-03-22", "2025-03-23", "2025-03-24", "2025-03-25",
     "2025-03-26", "2025-03-27", "2025-03-28", "2025-03-29", "2025-03-30",
     "2025-03-31", "2025-04-01", "2025-04-02", "2025-04-03", "2025-04-04",
     "2025-04-05", "2025-04-06", "2025-04-07", "2025-04-08", "2025-04-09",
     "2025-04-10", "2025-04-11", "2025-04-12", "2025-04-13", "2025-04-14",
     "2025-04-15", "2025-04-16", "2025-04-17", "2025-04-18", "2025-04-19",
     "2025-04-20", "2025-04-21", "2025-04-22", "2025-04-23", "2025-04-24",
     "2025-04-25", "2025-04-26", "2025-04-27", "2025-04-28", "2025-04-29",
     "2025-04-30", "2025-05-01", "2025-05-02", "2025-05-03", "2025-05-04",
     "2025-05-05", "2025-05-06", "2025-05-07", "2025-05-08", "2025-05-09",
     "2025-05-10", "2025-05-11", "2025-05-12", "2025-05-13", "2025-05-14",
     "2025-05-15", "2025-05-16", "2025-05-17", "2025-05-18", "2025-05-19",
     "2025-05-20", "2025-05-21", "2025-05-22", "2025-05-23", "2025-05-24",
     "2025-05-25", "2025-05-26", "2025-05-27", "2025-05-28", "2025-05-29",
     "2025-05-30", "2025-05-31", "2025-06-01", "2025-06-02", "2025-06-03",
     "2025-06-04", "2025-06-05", "2025-06-06", "2025-06-07", "2025-06-08",
     "2025-06-09", "2025-06-10", "2025-06-11", "2025-06-12", "2025-06-13",
     "2025-06-14", "2025-06-15", "2025-06-16", "2025-06-17", "2025-06-18",
     "2025-06-19", "2025-06-20", "2025-06-21", "2025-06-22", "2025-06-23",
     "2025-06-24", "2025-06-25", "2025-06-26", "2025-06-27", "2025-06-28",
     "2025-06-29", "2025-06-30", "2025-07-01", "2025-07-02", "2025-07-03",
     "2025-07-04", "2025-07-05", "2025-07-06", "2025-07-07", "2025-07-08",
     "2025-07-09", "2025-07-10", "2025-07-11", "2025-07-12", "2025-07-13",
     "2025-07-14", "2025-07-15", "2025-07-16", "2025-07-17", "2025-07-18",
     "2025-07-19", "2025-07-20", "2025-07-21", "2025-07-22", "2025-07-23",
     "2025-07-24", "2025-07-25", "2025-07-26", "2025-07-27", "2025-07-28",
     "2025-07-29", "2025-07-30", "2025-07-31", "2025-08-01", "2025-08-02",
     "2025-08-03", "2025-08-04", "2025-08-05", "2025-08-06", "2025-08-07",
     "2025-08-08", "2025-08-09", "2025-08-10", "2025-08-11", "2025-08-12",
     "2025-08-13", "2025-08-14", "2025-08-15", "2025-08-16", "2025-08-17",
     "2025-08-18", "2025-08-19", "2025-08-20", "2025-08-21", "2025-08-22",
     "2025-08-23", "2025-08-24", "2025-08-25", "2025-08-26", "2025-08-27",
     "2025-08-28", "2025-08-29", "2025-08-30", "2025-08-31", "2025-09-01",
     "2025-09-02", "2025-09-03", "2025-09-04", "2025-09-05", "2025-09-06",
     "2025-09-07", "2025-09-08", "2025-09-09", "2025-09-10", "2025-09-11",
     "2025-09-12", "2025-09-13", "2025-09-14", "2025-09-15", "2025-09-16",
     "2025-09-17", "2025-09-18", "2025-09-19", "2025-09-20", "2025-09-21",
     "2025-09-22", "2025-09-23", "2025-09-24", "2025-09-25", "2025-09-26",
     "2025-09-27", "2025-09-28", "2025-09-29", "2025-09-30", "2025-10-01",
     "2025-10-02", "2025-10-03", "2025-10-04", "2025-10-05", "2025-10-06",
     "2025-10-07", "2025-10-08", "2025-10-09", "2025-10-10", "2025-10-11",
     "2025-10-12", "2025-10-13", "2025-10-14", "2025-10-15", "2025-10-16",
     "2025-10-17", "2025-10-18", "2025-10-19", "2025-10-20", "2025-10-21",
     "2025-10-22", "2025-10-23", "2025-10-24", "2025-10-25", "2025-10-26",
     "2025-10-27", "2025-10-28", "2025-10-29", "2025-10-30", "2025-10-31",
     "2025-11-01", "2025-11-02", "2025-11-03", "2025-11-04", "2025-11-05",
     "2025-11-06", "2025-11-07", "2025-11-08", "2025-11-09", "2025-11-10",
     "2025-11-11", "2025-11-12", "2025-11-13", "2025-11-14", "2025-11-15",
     "2025-11-16", "2025-11-17", "2025-11-18", "2025-11-19", "2025-11-20",
     "2025-11-21", "2025-11-22", "2025-11-23", "2025-11-24", "2025-11-25",
     "2025-11-26", "2025-11-27", "2025-11-28", "2025-11-29", "2025-11-30",
     "2025-12-01", "2025-12-02", "2025-12-03", "2025-12-04", "2025-12-05",
     "2025-12-06", "2025-12-07", "2025-12-08", "2025-12-09", "2025-12-10",
     "2025-12-11", "2025-12-12", "2025-12-13", "2025-12-14", "2025-12-15",
     "2025-12-16", "2025-12-17", "2025-12-18", "2025-12-19", "2025-12-20",
     "2025-12-21", "2025-12-22", "2025-12-23", "2025-12-24", "2025-12-25",
     "2025-12-26", "2025-12-27", "2025-12-28", "2025-12-29", "2025-12-30",
     "2025-12-31", "2026-01-01", "2026-01-02", "2026-01-03", "2026-01-04",
     "2026-01-05", "2026-01-06", "2026-01-07", "2026-01-08", "2026-01-09",
     "2026-01-10", "2026-01-11", "2026-01-12", "2026-01-13", "2026-01-14",
     "2026-01-15", "2026-01-16", "2026-01-17", "2026-01-18", "2026-01-19",
     "2026-01-20", "2026-01-21", "2026-01-22", "2026-01-23", "2026-01-24",
     "2026-01-25", "2026-01-26", "2026-01-27", "2026-01-28", "2026-01-29",
     "2026-01-30", "2026-01-31"
  >>
ClientDays == {ClientDayStrings[i] : i \in DOMAIN ClientDayStrings}
\* (f @@ <<>> is f, written out as a table)
ClientDayOrdinal ==
  [s \in ClientDays |->
     ClientFirstOrdinal - 1 + CHOOSE i \in DOMAIN ClientDayStrings : ClientDayStrings[i] = s]
  @@ <<>>

\* new Date(s): UTC midnight of a day string, in seconds since 2025-01-01T00:00Z,
\* and Invalid Date for a string that is no date
InvalidDate == [valid |-> FALSE, time |-> 0]
NewDate(s) ==
  IF s \in Days THEN [valid |-> TRUE, time |-> SecondsPerDay * (DayOfMonth[s] - 1)]
  ELSE IF s \in MonthDays THEN [valid |-> TRUE, time |-> SecondsPerDay * DayOrdinal[s]]
  ELSE IF s \in ClientDays
  THEN [valid |-> TRUE, time |-> SecondsPerDay * ClientDayOrdinal[s]]
  ELSE InvalidDate

\* the offsets from UTC, in seconds east, the server process may run under
TimeZoneOffsets == {-18000, 0, 7200}
\* the months of 2025 a query may name, and the first day of each and of the next,
\* in days after 2025-01-01
Months == 1..3
FirstOfMonth ==
  [m \in 1..6 |-> CASE m = 1 -> 0 [] m = 2 -> 31 [] m = 3 -> 59 [] m = 4 -> 90
                     [] m = 5 -> 120 [] m = 6 -> 151]

\* new Date(year, monthIndex, day, 0, 0, seconds): a moment given in the local time
\* of the process; monthIndex counts from 0, and day 0 is the last day of the month
\* before
LocalDate(offset, year, monthIndex, day, seconds) ==
  [valid |-> TRUE,
   time |-> SecondsPerDay * (FirstOfMonth[monthIndex + 1] + day - 1) + seconds - offset]

\* parseInt of the query strings
QueryYears == {"2025"}
QueryMonths == {"1", "2", "3"}
ParseInt ==
  [s \in QueryYears \cup QueryMonths |->
     CASE s = "2025" -> 2025 [] s = "1" -> 1 [] s = "2" -> 2 [] s = "3" -> 3]

\* a <= b and a >= b on Date objects: false as soon as one side is Invalid Date
DateLeq(a, b) == a.valid /\ b.valid /\ a.time <= b.time
DateGeq(a, b) == a.valid /\ b.valid /\ a.time >= b.time

\* truthiness of a string-or-undefined value
Truthy(v) == v # Undefined /\ v # ""
\* a || b
OrElse(a, b) == IF Truthy(a) THEN a ELSE b

\* ---------------------------------------------------------------- schema
InsertFields == {"roomId", "customerName", "startDate", "endDate"}

FieldValues(k) ==
  CASE k = "roomId" -> RoomIds
    [] k = "customerName" -> CustomerNames
    [] k = "startDate" -> DateStrings
    [] k = "endDate" -> DateStrings

\* the payloads insertBookingSchema.parse accepts
insertBookingSchema ==
  {p \in [InsertFields -> RoomIds \cup CustomerNames \cup DateStrings] :
     \A k \in InsertFields : p[k] \in FieldValues(k)}

\* the payloads insertBookingSchema.partial().parse accepts: any subset of the fields
updateSchema ==
  UNION {{p \in [S -> RoomIds \cup CustomerNames \cup DateStrings] :
            \A k \in S : p[k] \in FieldValues(k)} : S \in SUBSET InsertFields}

\* validatedData.k of a partial payload
Prop(p, k) == IF k \in DOMAIN p THEN p[k] ELSE Undefined

\* ---------------------------------------------------------------- local time
\* a time zone: its two offsets from UTC in seconds east, the smaller one first in
\* force, and the instants, in order, from which the other one is (the changes of
\* 2024, 2025 and 2026)
Change(year, month, date, seconds, offset) ==
  [at |-> DayNumber(year, month, date) * SecondsPerDay + seconds, offset |-> offset]
UTCZone == [standard |-> 0, daylight |-> 0, changes |-> <<>>]
\* Europe/Rome: +1 h, and +2 h from the last Sunday of March 01:00Z to the last
\* Sunday of October 01:00Z
RomeZone ==
  [standard |-> 3600, daylight |-> 7200,
   changes |-> <<Change(2024, 3, 31, 3600, 7200), Change(2024, 10, 27, 3600, 3600),
                 Change(2025, 3, 30, 3600, 7200), Change(2025, 10, 26, 3600, 3600),
                 Change(2026, 3, 29, 3600, 7200), Change(2026, 10, 25, 3600, 3600)>>]
\* America/New_York: -5 h, and -4 h from the second Sunday of March 07:00Z to the
\* first Sunday of November 06:00Z
NewYorkZone ==
  [standard |-> -18000, daylight |-> -14400,
   changes |-> <<Change(2024, 3, 10, 25200, -14400), Change(2024, 11, 3, 21600, -18000),
                 Change(2025, 3, 9, 25200, -14400), Change(2025, 11, 2, 21600, -18000),
                 Change(2026, 3, 8, 25200, -14400), Change(2026, 11, 1, 21600, -18000)>>]
\* Asia/Tokyo, +9 h, and Pacific/Honolulu, -10 h, all year
TokyoZone == [standard |-> 32400, daylight |-> 32400, changes |-> <<>>]
HonoluluZone == [standard |-> -36000, daylight |-> -36000, changes |-> <<>>]
\* the time zones of the browser in the selection, and in the month grids
Zones == {UTCZone, RomeZone, NewYorkZone}
GridZones == Zones \cup {TokyoZone, HonoluluZone}

\* the offset in force at instant t
Offset(z, t) ==
  LET past == Cardinality({i \in DOMAIN z.changes : z.changes[i].at <= t})
  IN IF past = 0 THEN z.standard ELSE z.changes[past].offset
\* UTC(w): the instant of local wall time w; a wall time that occurs twice is the
\* earlier instant and one that does not occur is read with the offset before the
\* change, the standard one
FromLocal(z, w) ==
  IF Offset(z, w - z.daylight) = z.daylight THEN w - z.daylight ELSE w - z.standard
\* the local calendar day of instant t, as a day number, and the local time of day
\* in seconds
LocalDay(z, t) == (t + Offset(z, t)) \div SecondsPerDay
LocalTimeOfDay(z, t) == (t + Offset(z, t)) % SecondsPerDay
\* date.setDate(date.getDate() + delta): the same local time of day, delta local
\* days on
SetDate(z, t, delta) ==
  LET local == t + Offset(z, t)
  IN FromLocal(z, local + delta * SecondsPerDay)
\* getFullYear(), getMonth() counted from 0, getDate(), and getDay() with
\* Sunday = 0, of a local day
GetFullYear(day) == CivilDate(day).year
GetMonth(day) == CivilDate(day).month - 1
GetDate(day) == CivilDate(day).date
GetDay(day) == (day + 3) % 7

\* ---------------------------------------------------------------- calendar-utils
\* date.toISOString().split('T')[0]: the UTC calendar day of instant t
formatDateString(t) == ClientDayStrings[(t \div SecondsPerDay) - ClientFirstOrdinal + 1]

RECURSIVE CalendarDaysFrom(_, _, _, _)
\* the loop of generateCalendarDays: one cell per pass, while currentDate <= endDate
CalendarDaysFrom(z, month, currentDate, endDate) ==
  IF currentDate > endDate THEN <<>>
  ELSE LET day == LocalDay(z, currentDate)
           getMonth == GetMonth(day)
       IN <<[dateString |-> formatDateString(currentDate),
             dayNumber |-> GetDate(day),
             isCurrentMonth |-> getMonth = month,
             isPrevMonth |-> getMonth < month \/ (getMonth = 11 /\ month = 0),
             isNextMonth |-> getMonth > month \/ (getMonth = 0 /\ month = 11)]>>
          \o CalendarDaysFrom(z, month, SetDate(z, currentDate, 1), endDate)

\* generateCalendarDays(year, month): the cells from the Sunday on or before the
\* 1st to the Saturday on or after the last day
generateCalendarDays(z, year, month) ==
  LET firstDay == FromLocal(z, FirstDayOfMonth(year, month) * SecondsPerDay)
      lastDay == FromLocal(z, (FirstDayOfMonth(year, month + 1) - 1) * SecondsPerDay)
      startDate == SetDate(z, firstDay, 0 - GetDay(LocalDay(z, firstDay)))
      endDate == SetDate(z, lastDay, 6 - GetDay(LocalDay(z, lastDay)))
  IN CalendarDaysFrom(z, month, startDate, endDate)

RECURSIVE DatesFrom(_, _, _)
\* the loop of getDatesBetween
DatesFrom(z, currentDate, end) ==
  IF currentDate > end THEN <<>>
  ELSE <<formatDateString(currentDate)>> \o DatesFrom(z, SetDate(z, currentDate, 1), end)

getDatesBetween(z, startDate, endDate) ==
  DatesFrom(z, NewDate(startDate).time, NewDate(endDate).time)

RECURSIVE StableSort(_)
\* a stable sort by time value: the last date goes into the sorted rest, behind the
\* dates that are not later
StableSort(dates) ==
  IF Len(dates) <= 1 THEN dates
  ELSE LET rest == StableSort(SubSeq(dates, 1, Len(dates) - 1))
           x == NewDate(dates[Len(dates)]).time
           n == Cardinality({i \in DOMAIN rest : NewDate(rest[i]).time <= x})
       IN SubSeq(rest, 1, n) \o <<dates[Len(dates)]>> \o SubSeq(rest, n + 1, Len(rest))

\* dates.sort((a, b) => new Date(a).getTime() - new Date(b).getTime()); dates
\* already in order stay as they are
\* variant: the dates are left in the order given
MutSortDatesKeepsOrder(dates) == dates

sortDates(dates) ==
  IF \A i \in 1..(Len(dates) - 1) : NewDate(dates[i]).time <= NewDate(dates[i + 1]).time
  THEN dates
  ELSE StableSort(dates)

\* ---------------------------------------------------------------- state
VARIABLES
  bookings,   \* MemStorage.bookings: id -> Booking
  issued,     \* how many identifiers randomUUID() has handed out
  req,        \* the request being served
  resp,       \* the response on its way to the client
  inflight,   \* concurrent create requests: client -> request, position, answer
  deleted,    \* the booking the last successful delete removed (history)
  tz,         \* the offset from UTC of the server's local time, in seconds east
  zone,                   \* the time zone of the browser
  currentDate,            \* CalendarGrid prop: the year and month (from 0) shown
  calendarDays,           \* the cells of the last render
  isDragging,             \* CalendarGrid state
  dragStartDate,          \* CalendarGrid state: the anchor
  internalSelectedDates,  \* CalendarGrid state: the selection shown while dragging
  currentSelectionRef,    \* CalendarGrid ref: the selection handleMouseUp reads
  autoScrollTimer,        \* CalendarGrid state: the id of the last timer kept
  gMouseUp,               \* the module-level flag _gMouseUp
  timers,                 \* pending setTimeout callbacks: id -> what the callback captured
  issuedTimers,           \* how many timers setTimeout() has started
  listener,               \* the mouseup listener on window and what it captured
  emitted,                \* the argument of the last onDatesSelected call
  emissions,              \* how many times onDatesSelected was called
  selectedDates,          \* Calendar page state: the prop selectedDates of the grid
  showBookingModal,       \* Calendar page state: the prop open of the booking form
  event,                  \* the event handled last and the cell's date (history)
  selectedRoom,           \* BookingModal state
  customerName,           \* BookingModal state
  hasConflict,            \* BookingModal state: the advisory conflict flag
  checkConflictMutation,  \* the check-conflict request in flight whose answer is awaited
  createBookingMutation,  \* the create request in flight
  call                    \* the last call of a calendar-utils function and its result (history)

storeVars == <<bookings, issued>>
httpVars == <<req, resp>>
\* state the booking routes never touch
\* the calendar grid without the history of events
gridVars == <<zone, currentDate, calendarDays, isDragging, dragStartDate, internalSelectedDates,
              currentSelectionRef, autoScrollTimer, gMouseUp, timers, issuedTimers,
              listener, emitted, emissions, selectedDates, showBookingModal>>
\* the booking form
formVars == <<selectedRoom, customerName, hasConflict, checkConflictMutation,
              createBookingMutation>>
clientVars == <<gridVars, event, formVars, call>>
raceVars == <<inflight, deleted, tz, clientVars>>
serverVars == <<bookings, issued, req, resp, inflight, deleted, tz>>
vars == <<bookings, issued, req, resp, inflight, deleted, tz, clientVars>>

NoRequest == [op |-> "none", id |-> Undefined, body |-> <<>>]
\* a response without a booking in it
NoBody == <<>>
NoResponse == [op |-> "none", status |-> 0, hasConflict |-> FALSE, body |-> NoBody]

\* ---------------------------------------------------------------- CalendarGrid
\* null, and the absence of a timer id (timer ids are positive)
Null == "null"
NoTimer == 0
NoListener == [registered |-> FALSE, autoScrollTimer |-> NoTimer]
NoEvent == [type |-> "none", dateString |-> Null]

\* new Date(year, monthIndex, 1) as the grid reads it: getFullYear() and getMonth()
MonthOf(year, monthIndex) ==
  [year |-> year + (monthIndex \div 12), month |-> monthIndex % 12]
\* the months the grid may show at first: March, April and June 2025 (June starts
\* on a Sunday)
ShownMonths == {MonthOf(2025, 2), MonthOf(2025, 3), MonthOf(2025, 5)}
\* the cells pointer events land on (positions in calendarDays, from 1): in March
\* days around the 30th and the last cell, in April the first cell and two more,
\* in June the first cell and two more, in December the last cell and one more,
\* in January the first cell and one more
PointerCells(shown) ==
  IF shown = MonthOf(2025, 2) THEN {34, 36, 38, 42}
  ELSE IF shown = MonthOf(2025, 3) THEN {1, 3, 7}
  ELSE IF shown = MonthOf(2025, 5) THEN {1, 3, 10}
  ELSE IF shown = MonthOf(2025, 11) THEN {33, 35}
  ELSE IF shown = MonthOf(2025, 0) THEN {1, 3}
  ELSE {}

\* no request of the form in flight, and no calendar-utils call made
NoMutation == [pending |-> FALSE]
NoCall == [fn |-> "none"]

\* the Calendar page's handleDatesSelected
\* variant: the form is opened for an empty list too
MutHandleDatesSelectedOpensAlways(dates) ==
  /\ selectedDates' = dates
  /\ showBookingModal' = TRUE

handleDatesSelected(dates) ==
  /\ selectedDates' = dates
  /\ showBookingModal' = IF Len(dates) > 0 THEN TRUE ELSE showBookingModal

\* the page and the booking form after their first render: useState("") and
\* useState(false), nothing in flight
FormClosed ==
  /\ showBookingModal = FALSE
  /\ selectedRoom = ""
  /\ customerName = ""
  /\ hasConflict = FALSE
  /\ checkConflictMutation = NoMutation
  /\ createBookingMutation = NoMutation
  /\ call = NoCall

\* no calendar page is open
NoGrid ==
  /\ zone = UTCZone
  /\ currentDate = MonthOf(2025, 2)
  /\ calendarDays = <<>>
  /\ isDragging = FALSE
  /\ dragStartDate = Null
  /\ internalSelectedDates = <<>>
  /\ currentSelectionRef = <<>>
  /\ autoScrollTimer = NoTimer
  /\ gMouseUp = TRUE
  /\ timers = <<>>
  /\ issuedTimers = 0
  /\ listener = NoListener
  /\ emitted = <<>>
  /\ emissions = 0
  /\ selectedDates = <<>>
  /\ event = NoEvent
  /\ FormClosed

\* the component after its first render showing `month` in time zone z
GridMounted(z, month) ==
  /\ zone = z
  /\ currentDate = month
  /\ calendarDays = generateCalendarDays(z, month.year, month.month)
  /\ isDragging = FALSE
  /\ dragStartDate = Null
  /\ internalSelectedDates = <<>>
  /\ currentSelectionRef = <<>>
  /\ autoScrollTimer = NoTimer
  /\ gMouseUp = TRUE
  /\ timers = <<>>
  /\ issuedTimers = 0
  /\ listener = NoListener
  /\ emitted = <<>>
  /\ emissions = 0
  /\ selectedDates = <<>>
  /\ event = NoEvent
  /\ FormClosed

\* variant: clearTimeout leaves the timer pending
MutClearTimeoutKeeps(pending, id) == pending

\* clearTimeout(id)
clearTimeout(pending, id) == [k \in DOMAIN pending \ {id} |-> pending[k]]

\* getDatesBetween of the two dates, the earlier one first
dateRange(z, startDate, endDate) ==
  LET startFirst == DateLeq(NewDate(startDate), NewDate(endDate))
  IN getDatesBetween(z, IF startFirst THEN startDate ELSE endDate,
                        IF startFirst THEN endDate ELSE startDate)

\* variant: the ref is not brought in line with the state
MutHandleMouseDownStaleRef(dateString) ==
  /\ gMouseUp' = FALSE
  /\ isDragging' = TRUE
  /\ dragStartDate' = dateString
  /\ internalSelectedDates' = <<dateString>>
  /\ listener' = IF isDragging THEN listener
                 ELSE [registered |-> TRUE, autoScrollTimer |-> autoScrollTimer]
  /\ UNCHANGED <<zone, currentDate, calendarDays, currentSelectionRef, autoScrollTimer, timers,
                 issuedTimers, emitted, emissions, selectedDates, showBookingModal>>

\* variant: no mouseup listener is added to window
MutHandleMouseDownNoListener(dateString) ==
  /\ gMouseUp' = FALSE
  /\ isDragging' = TRUE
  /\ dragStartDate' = dateString
  /\ internalSelectedDates' = <<dateString>>
  /\ currentSelectionRef' = <<dateString>>
  /\ UNCHANGED <<zone, currentDate, calendarDays, autoScrollTimer, timers, issuedTimers, emitted,
                 emissions, selectedDates, showBookingModal, listener>>

\* handleMouseDown, and the effect that adds the mouseup listener to window in the
\* render where isDragging has become true
handleMouseDown(dateString) ==
  /\ gMouseUp' = FALSE
  /\ isDragging' = TRUE
  /\ dragStartDate' = dateString
  /\ internalSelectedDates' = <<dateString>>
  /\ currentSelectionRef' = <<dateString>>
  /\ listener' = IF isDragging THEN listener
                 ELSE [registered |-> TRUE, autoScrollTimer |-> autoScrollTimer]
  /\ UNCHANGED <<zone, currentDate, calendarDays, autoScrollTimer, timers, issuedTimers, emitted,
                 emissions, selectedDates, showBookingModal>>

\* handleMouseEnter on the cell at position currentDateIndex; a timer is kept with
\* what its callback captured, and with the number of drags released before the
\* one that started it (gesture), which the callback does not read
handleMouseEnter(currentDateIndex) ==
  IF ~isDragging \/ dragStartDate = Null
  THEN UNCHANGED gridVars
  ELSE
    LET dateString == calendarDays[currentDateIndex].dateString
        cleared == IF autoScrollTimer # NoTimer
                   THEN clearTimeout(timers, autoScrollTimer) ELSE timers
        isLastCellOfGrid == currentDateIndex = Len(calendarDays)
        isFirstCellOfGrid == currentDateIndex = 1
        currentDateObj == LocalDay(zone, NewDate(dateString).time)
        currentMonth == currentDate.month
        currentYear == currentDate.year
        targetMonth == GetMonth(currentDateObj)
        targetYear == GetFullYear(currentDateObj)
        isNextMonth == targetYear > currentYear
                         \/ (targetYear = currentYear /\ targetMonth > currentMonth)
        isPrevMonth == targetYear < currentYear
                         \/ (targetYear = currentYear /\ targetMonth < currentMonth)
        shouldScrollNext == isLastCellOfGrid /\ isNextMonth
        shouldScrollPrev == isFirstCellOfGrid /\ isPrevMonth
        timer == issuedTimers + 1
    IN /\ IF shouldScrollNext \/ shouldScrollPrev
          THEN /\ issuedTimers < MaxTimers
               /\ timers' = [k \in DOMAIN cleared \cup {timer} |->
                               IF k = timer
                               THEN [isDragging |-> isDragging,
                                     dragStartDate |-> dragStartDate,
                                     dateString |-> dateString,
                                     currentMonth |-> currentMonth,
                                     currentYear |-> currentYear,
                                     shouldScrollNext |-> shouldScrollNext,
                                     gesture |-> emissions]
                               ELSE cleared[k]]
               /\ issuedTimers' = timer
               /\ autoScrollTimer' = timer
          ELSE /\ timers' = cleared
               /\ autoScrollTimer' = NoTimer
               /\ UNCHANGED issuedTimers
       /\ internalSelectedDates' = dateRange(zone, dragStartDate, dateString)
       /\ currentSelectionRef' = internalSelectedDates'
       /\ UNCHANGED <<zone, currentDate, calendarDays, isDragging, dragStartDate, gMouseUp, listener,
                      emitted, emissions, selectedDates, showBookingModal>>

\* the callback of the timer started by handleMouseEnter, over what it captured
\* variant: the month index wraps but the year stays
MutTimerCallbackKeepsYear(captured) ==
  IF gMouseUp
  THEN UNCHANGED <<currentDate, calendarDays, internalSelectedDates,
                   currentSelectionRef>>
  ELSE IF captured.isDragging
  THEN /\ currentDate' = [year |-> captured.currentYear,
                          month |-> (captured.currentMonth
                                       + (IF captured.shouldScrollNext THEN 1 ELSE -1)) % 12]
       /\ calendarDays' = generateCalendarDays(zone, currentDate'.year, currentDate'.month)
       /\ internalSelectedDates'
            = dateRange(zone, captured.dragStartDate, captured.dateString)
       /\ currentSelectionRef' = internalSelectedDates'
  ELSE UNCHANGED <<currentDate, calendarDays, internalSelectedDates,
                   currentSelectionRef>>

timerCallback(captured) ==
  IF gMouseUp
  THEN UNCHANGED <<currentDate, calendarDays, internalSelectedDates,
                   currentSelectionRef>>
  ELSE IF captured.isDragging
  THEN /\ currentDate' = MonthOf(captured.currentYear,
                                  captured.currentMonth
                                    + (IF captured.shouldScrollNext THEN 1 ELSE -1))
       /\ calendarDays' = generateCalendarDays(zone, currentDate'.year, currentDate'.month)
       /\ internalSelectedDates'
            = dateRange(zone, captured.dragStartDate, captured.dateString)
       /\ currentSelectionRef' = internalSelectedDates'
  ELSE UNCHANGED <<currentDate, calendarDays, internalSelectedDates,
                   currentSelectionRef>>

\* variant: the listener on window outlives the drag
MutHandleMouseUpKeepsListener(capturedIsDragging, capturedTimer) ==
  /\ gMouseUp' = TRUE
  /\ IF ~capturedIsDragging
     THEN UNCHANGED <<zone, currentDate, calendarDays, isDragging, dragStartDate,
                      internalSelectedDates, currentSelectionRef, autoScrollTimer,
                      timers, issuedTimers, listener, emitted, emissions, selectedDates, showBookingModal>>
     ELSE /\ timers' = IF capturedTimer # NoTimer
                       THEN clearTimeout(clearTimeout(timers, capturedTimer), autoScrollTimer)
                       ELSE timers
          /\ autoScrollTimer' = IF capturedTimer # NoTimer THEN NoTimer
                                ELSE autoScrollTimer
          /\ isDragging' = FALSE
          /\ dragStartDate' = Null
          /\ IF Len(currentSelectionRef) > 0 /\ emissions < MaxEmissions
             THEN /\ emitted' = sortDates(currentSelectionRef)
                  /\ emissions' = emissions + 1
                  /\ handleDatesSelected(emitted')
             ELSE UNCHANGED <<emitted, emissions, selectedDates, showBookingModal>>
          /\ UNCHANGED <<zone, currentDate, calendarDays, internalSelectedDates,
                         currentSelectionRef, issuedTimers, listener>>

\* handleMouseUp as the render that made it sees isDragging and autoScrollTimer,
\* with what the next render brings: the cleanup of the effect on [isDragging]
\* removes the listener, the cleanup of the effect on [autoScrollTimer] clears the
\* timer that state held when setAutoScrollTimer(null) changes it, and
\* onDatesSelected is the page's handleDatesSelected, which keeps the dates
handleMouseUp(capturedIsDragging, capturedTimer) ==
  /\ gMouseUp' = TRUE
  /\ IF ~capturedIsDragging
     THEN UNCHANGED <<zone, currentDate, calendarDays, isDragging, dragStartDate,
                      internalSelectedDates, currentSelectionRef, autoScrollTimer,
                      timers, issuedTimers, listener, emitted, emissions, selectedDates, showBookingModal>>
     ELSE /\ timers' = IF capturedTimer # NoTimer
                       THEN clearTimeout(clearTimeout(timers, capturedTimer), autoScrollTimer)
                       ELSE timers
          /\ autoScrollTimer' = IF capturedTimer # NoTimer THEN NoTimer
                                ELSE autoScrollTimer
          /\ isDragging' = FALSE
          /\ dragStartDate' = Null
          /\ IF Len(currentSelectionRef) > 0
             THEN /\ emitted' = sortDates(currentSelectionRef)
                  /\ emissions' = emissions + 1
                  /\ handleDatesSelected(emitted')
             ELSE UNCHANGED <<emitted, emissions, selectedDates, showBookingModal>>
          /\ listener' = NoListener
          /\ UNCHANGED <<zone, currentDate, calendarDays, internalSelectedDates,
                         currentSelectionRef, issuedTimers>>

\* variant: the render shows both sets
MutDisplayedMerged == internalSelectedDates \o selectedDates

\* the render: const displayedSelectedDates = isDragging ? internalSelectedDates
\*                                                      : externalSelectedDates
displayedSelectedDates == IF isDragging THEN internalSelectedDates ELSE selectedDates

\* the render: const isSelected = displayedSelectedDates.includes(day.dateString)
isSelected(day) ==
  \E k \in 1..Len(displayedSelectedDates) : displayedSelectedDates[k] = day.dateString

\* the component is on the page
Mounted == calendarDays # <<>>

\* mousedown or touchstart on a cell
PointerDown(i) ==
  /\ Mounted
  /\ i \in PointerCells(currentDate)
  /\ emissions < MaxEmissions
  /\ handleMouseDown(calendarDays[i].dateString)
  /\ event' = [type |-> "down", dateString |-> calendarDays[i].dateString]
  /\ UNCHANGED <<serverVars, formVars, call>>

\* variant: a mouseenter outside a drag clears the timer the state holds
MutPointerEnterClearsWhenIdle(i) ==
  /\ Mounted
  /\ i \in PointerCells(currentDate)
  /\ IF isDragging
     THEN handleMouseEnter(i)
     ELSE /\ timers' = clearTimeout(timers, autoScrollTimer)
          /\ autoScrollTimer' = NoTimer
          /\ UNCHANGED <<zone, currentDate, calendarDays, isDragging, dragStartDate,
                         internalSelectedDates, currentSelectionRef, gMouseUp,
                         issuedTimers, listener, emitted, emissions, selectedDates, showBookingModal>>
  /\ event' = [type |-> "enter", dateString |-> calendarDays[i].dateString]
  /\ UNCHANGED <<serverVars, formVars, call>>

\* mouseenter on a cell, or touchmove over it
PointerEnter(i) ==
  /\ Mounted
  /\ i \in PointerCells(currentDate)
  /\ handleMouseEnter(i)
  /\ event' = [type |-> "enter", dateString |-> calendarDays[i].dateString]
  /\ UNCHANGED <<serverVars, formVars, call>>

\* touchend on the grid: handleTouchEnd calls the handleMouseUp of the last render
TouchEnd ==
  /\ Mounted
  /\ handleMouseUp(isDragging, autoScrollTimer)
  /\ event' = [type |-> "touchend", dateString |-> Null]
  /\ UNCHANGED <<serverVars, formVars, call>>

\* mouseup anywhere: the listener on window, if there is one, calls the
\* handleMouseUp of the render that added it
GlobalMouseUp ==
  /\ IF listener.registered
     THEN handleMouseUp(TRUE, listener.autoScrollTimer)
     ELSE UNCHANGED gridVars
  /\ event' = [type |-> "mouseup", dateString |-> Null]
  /\ UNCHANGED <<serverVars, formVars, call>>

\* a pending timer runs its callback
TimerFire(id) ==
  /\ id \in DOMAIN timers
  /\ timers' = clearTimeout(timers, id)
  /\ timerCallback(timers[id])
  /\ event' = [type |-> "timer", dateString |-> Null]
  /\ UNCHANGED <<zone, isDragging, dragStartDate, autoScrollTimer, gMouseUp,
                 issuedTimers, listener, emitted, emissions, selectedDates, showBookingModal>>
  /\ UNCHANGED <<serverVars, formVars, call>>

\* ---------------------------------------------------------------- BookingModal
\* resetForm, without the fields the model leaves out (email, notes)
resetForm ==
  /\ selectedRoom' = ""
  /\ customerName' = ""
  /\ hasConflict' = FALSE

\* the selectedDates array after the effect on [selectedRoom, selectedDates] has
\* run with this room: selectedDates.sort(...) sorts the page's array in place
sortedInPlace(room, dates) ==
  IF room # "" /\ Len(dates) > 0 THEN sortDates(dates) ELSE dates

\* the effect on [selectedRoom, selectedDates], run after a render in which one of
\* them changed: it asks the server whether the room is taken from the first to
\* the last date, or clears the flag. The callback given to mutate() runs for the
\* last call only, so a request replaces the one in flight.
conflictCheckEffect(room, dates) ==
  IF room # "" /\ Len(dates) > 0
  THEN LET sortedDates == sortDates(dates)
       IN /\ checkConflictMutation'
               = [pending |-> TRUE,
                  roomId |-> room,
                  startDate |-> sortedDates[1],
                  endDate |-> sortedDates[Len(sortedDates)]]
          /\ UNCHANGED hasConflict
  ELSE /\ hasConflict' = FALSE
       /\ UNCHANGED checkConflictMutation

\* handleSubmit: two early returns with a toast, then createBookingMutation.mutate
handleSubmit ==
  IF selectedRoom = "" \/ customerName = "" \/ Len(selectedDates) = 0
  THEN UNCHANGED createBookingMutation
  ELSE IF hasConflict
  THEN UNCHANGED createBookingMutation
  ELSE LET sortedDates == sortDates(selectedDates)
       IN createBookingMutation'
            = [pending |-> TRUE,
               booking |-> [roomId |-> selectedRoom,
                            customerName |-> customerName,
                            startDate |-> sortedDates[1],
                            endDate |-> sortedDates[Len(sortedDates)]]]

\* what the grid handlers leave alone
pointerFrame == <<zone, currentDate, calendarDays, isDragging, dragStartDate,
                  internalSelectedDates, currentSelectionRef, autoScrollTimer, gMouseUp,
                  timers, issuedTimers, listener, emitted, emissions>>

\* the rooms of the Select, the names typed, and the date lists handed to the page
FormRooms == {"green-room", "red-room"}
TypedNames == {"", "Ann"}
FormSelections ==
  {<<>>, <<"2025-03-29">>, <<"2025-03-29", "2025-03-30">>, <<"2025-03-31", "2025-03-29">>,
   <<"2025-03-30", "2025-03-31", "2025-03-29">>, <<"2025-03-30", "2025-03-30">>}

\* the button New Booking: onClick={() => setShowBookingModal(true)}
NewBooking ==
  /\ Mounted
  /\ ~showBookingModal
  /\ showBookingModal' = TRUE
  /\ event' = [type |-> "new", dateString |-> Null]
  /\ UNCHANGED <<pointerFrame, selectedDates, formVars, call, serverVars>>

\* onDatesSelected(dates) reaches the page, and the form's effect runs on the new
\* selectedDates
DatesSelected(dates) ==
  /\ Mounted
  /\ emitted' = dates
  /\ handleDatesSelected(sortedInPlace(selectedRoom, dates))
  /\ conflictCheckEffect(selectedRoom, dates)
  /\ event' = [type |-> "dates", dateString |-> Null]
  /\ UNCHANGED <<zone, currentDate, calendarDays, isDragging, dragStartDate,
                 internalSelectedDates, currentSelectionRef, autoScrollTimer, gMouseUp,
                 timers, issuedTimers, listener, emissions>>
  /\ UNCHANGED <<selectedRoom, customerName, createBookingMutation, call, serverVars>>

\* onValueChange of the room Select, and the effect when the room has changed
SelectRoom(room) ==
  /\ showBookingModal
  /\ selectedRoom' = room
  /\ IF room # selectedRoom
     THEN /\ conflictCheckEffect(room, selectedDates)
          /\ selectedDates' = sortedInPlace(room, selectedDates)
     ELSE UNCHANGED <<hasConflict, checkConflictMutation, selectedDates>>
  /\ event' = [type |-> "room", dateString |-> Null]
  /\ UNCHANGED <<pointerFrame, showBookingModal, customerName, createBookingMutation,
                 call, serverVars>>

\* onChange of the customer name input
TypeName(name) ==
  /\ showBookingModal
  /\ customerName' = name
  /\ event' = [type |-> "name", dateString |-> Null]
  /\ UNCHANGED <<gridVars, selectedRoom, hasConflict, checkConflictMutation,
                 createBookingMutation, call, serverVars>>

\* submit of the form; the submit button is disabled while a create is pending
Submit ==
  /\ showBookingModal
  /\ ~createBookingMutation.pending
  /\ handleSubmit
  /\ event' = [type |-> "submit", dateString |-> Null]
  /\ UNCHANGED <<gridVars, selectedRoom, customerName, hasConflict,
                 checkConflictMutation, call, serverVars>>

\* the answer to the check-conflict request arrives: onSuccess of the mutate call
CheckAnswered(data) ==
  /\ Mounted
  /\ checkConflictMutation.pending
  /\ checkConflictMutation' = NoMutation
  /\ hasConflict' = data
  /\ event' = [type |-> "checked", dateString |-> Null]
  /\ UNCHANGED <<gridVars, selectedRoom, customerName, createBookingMutation, call,
                 serverVars>>

\* the create request succeeds: onSuccess calls the page's handleBookingCreated
\* and resetForm, and the effect runs on the emptied selectedDates
CreateSucceeded ==
  /\ Mounted
  /\ createBookingMutation.pending
  /\ createBookingMutation' = NoMutation
  /\ showBookingModal' = FALSE
  /\ selectedDates' = <<>>
  /\ resetForm
  /\ conflictCheckEffect("", <<>>)
  /\ event' = [type |-> "created", dateString |-> Null]
  /\ UNCHANGED <<pointerFrame, call, serverVars>>

\* the create request fails: onError shows a toast
CreateFailed ==
  /\ Mounted
  /\ createBookingMutation.pending
  /\ createBookingMutation' = NoMutation
  /\ event' = [type |-> "failed", dateString |-> Null]
  /\ UNCHANGED <<gridVars, selectedRoom, customerName, hasConflict,
                 checkConflictMutation, call, serverVars>>

\* handleClose of the form (the X, Cancel, a click outside): resetForm, then the
\* page's handleCloseModal, and the effect runs on the emptied selectedDates
CloseModal ==
  /\ showBookingModal
  /\ resetForm
  /\ showBookingModal' = FALSE
  /\ selectedDates' = <<>>
  /\ conflictCheckEffect("", <<>>)
  /\ event' = [type |-> "close", dateString |-> Null]
  /\ UNCHANGED <<pointerFrame, createBookingMutation, call, serverVars>>

\* the page is left: the cleanups of both effects run (the listener is removed, the
\* timer in autoScrollTimer is cleared) and the state of the grid, of the page and
\* of the form is gone; no callback of a request in flight runs any more;
\* _gMouseUp belongs to the module and stays
Unmount ==
  /\ Mounted
  /\ calendarDays' = <<>>
  /\ listener' = NoListener
  /\ timers' = clearTimeout(timers, autoScrollTimer)
  /\ isDragging' = FALSE
  /\ dragStartDate' = Null
  /\ internalSelectedDates' = <<>>
  /\ currentSelectionRef' = <<>>
  /\ autoScrollTimer' = NoTimer
  /\ selectedDates' = <<>>
  /\ showBookingModal' = FALSE
  /\ resetForm
  /\ checkConflictMutation' = NoMutation
  /\ createBookingMutation' = NoMutation
  /\ event' = [type |-> "unmount", dateString |-> Null]
  /\ UNCHANGED <<zone, currentDate, gMouseUp, issuedTimers, emitted, emissions>>
  /\ UNCHANGED <<call, serverVars>>

\* ---------------------------------------------------------------- the page's behaviours
InitSelect ==
  /\ bookings = <<>>
  /\ issued = 0
  /\ req = NoRequest
  /\ resp = NoResponse
  /\ inflight = <<>>
  /\ deleted = NoBody
  /\ tz = 0
  /\ \E z \in Zones, month \in ShownMonths : GridMounted(z, month)

NextSelect ==
  \/ \E i \in 1..42 : PointerDown(i)
  \/ \E i \in 1..42 : PointerEnter(i)
  \/ TouchEnd
  \/ GlobalMouseUp
  \/ \E id \in 1..MaxTimers : TimerFire(id)
  \/ CloseModal
  \/ Unmount

\* pointer events and timers over one calendar grid
SpecSelect == InitSelect /\ [][NextSelect]_vars

\* the months at the two ends of a year: January and December 2025
YearEndMonths == {MonthOf(2025, 0), MonthOf(2025, 11)}
InitYearWrap ==
  /\ bookings = <<>>
  /\ issued = 0
  /\ req = NoRequest
  /\ resp = NoResponse
  /\ inflight = <<>>
  /\ deleted = NoBody
  /\ tz = 0
  /\ \E z \in Zones, month \in YearEndMonths : GridMounted(z, month)

\* pointer events and timers over the grid of January or December
SpecYearWrap == InitYearWrap /\ [][NextSelect]_vars

\* a second CalendarGrid on the same page shares nothing with the first but the
\* module's _gMouseUp: its handleMouseDown clears the flag, its handleMouseUp sets it
OtherGridPointerDown ==
  /\ gMouseUp' = FALSE
  /\ event' = [type |-> "otherdown", dateString |-> Null]
  /\ UNCHANGED <<zone, currentDate, calendarDays, isDragging, dragStartDate,
                 internalSelectedDates, currentSelectionRef, autoScrollTimer, timers,
                 issuedTimers, listener, emitted, emissions, selectedDates, showBookingModal>>
  /\ UNCHANGED <<serverVars, formVars, call>>

OtherGridPointerUp ==
  /\ gMouseUp' = TRUE
  /\ event' = [type |-> "otherup", dateString |-> Null]
  /\ UNCHANGED <<zone, currentDate, calendarDays, isDragging, dragStartDate,
                 internalSelectedDates, currentSelectionRef, autoScrollTimer, timers,
                 issuedTimers, listener, emitted, emissions, selectedDates, showBookingModal>>
  /\ UNCHANGED <<serverVars, formVars, call>>

NextTwoGrids ==
  \/ NextSelect
  \/ OtherGridPointerDown
  \/ OtherGridPointerUp

\* the grid, showing March 2025 in UTC, next to another grid
InitTwoGrids ==
  /\ bookings = <<>>
  /\ issued = 0
  /\ req = NoRequest
  /\ resp = NoResponse
  /\ inflight = <<>>
  /\ deleted = NoBody
  /\ tz = 0
  /\ GridMounted(UTCZone, MonthOf(2025, 2))

SpecTwoGrids == InitTwoGrids /\ [][NextTwoGrids]_vars

\* ---- the calendar page with its booking form: selections reach the page, the
\* form is filled in and submitted, and the answers of the server arrive
InitForm ==
  /\ bookings = <<>>
  /\ issued = 0
  /\ req = NoRequest
  /\ resp = NoResponse
  /\ inflight = <<>>
  /\ deleted = NoBody
  /\ tz = 0
  /\ GridMounted(UTCZone, MonthOf(2025, 2))

NextForm ==
  \/ NewBooking
  \/ \E dates \in FormSelections : DatesSelected(dates)
  \/ \E room \in FormRooms : SelectRoom(room)
  \/ \E name \in TypedNames : TypeName(name)
  \/ Submit
  \/ \E data \in BOOLEAN : CheckAnswered(data)
  \/ CreateSucceeded
  \/ CreateFailed
  \/ CloseModal

SpecForm == InitForm /\ [][NextForm]_vars

\* ---- getDatesBetween as a function of the time zone and of two days
\* days around the changes of the clocks in 2025, and the 5th of January and on
RangeDays == {"2025-01-05", "2025-01-06", "2025-01-07", "2025-03-08", "2025-03-09", "2025-03-10", "2025-03-29",
              "2025-03-30", "2025-03-31", "2025-10-25", "2025-10-26", "2025-10-27"}

InitRange ==
  /\ bookings = <<>>
  /\ issued = 0
  /\ req = NoRequest
  /\ resp = NoResponse
  /\ inflight = <<>>
  /\ deleted = NoBody
  /\ tz = 0
  /\ zone \in GridZones
  /\ currentDate = MonthOf(2025, 2)
  /\ calendarDays = <<>>
  /\ isDragging = FALSE
  /\ dragStartDate = Null
  /\ internalSelectedDates = <<>>
  /\ currentSelectionRef = <<>>
  /\ autoScrollTimer = NoTimer
  /\ gMouseUp = TRUE
  /\ timers = <<>>
  /\ issuedTimers = 0
  /\ listener = NoListener
  /\ emitted = <<>>
  /\ emissions = 0
  /\ selectedDates = <<>>
  /\ event = NoEvent
  /\ FormClosed

\* a call getDatesBetween(startDate, endDate) with startDate not after endDate
GetDatesBetween(startDate, endDate) ==
  /\ NewDate(startDate).time <= NewDate(endDate).time
  /\ NewDate(endDate).time - NewDate(startDate).time <= MaxRange * SecondsPerDay
  /\ call' = [fn |-> "getDatesBetween",
              startDate |-> startDate,
              endDate |-> endDate,
              result |-> getDatesBetween(zone, startDate, endDate)]
  /\ UNCHANGED <<gridVars, event, formVars, serverVars>>

NextRange == \E startDate, endDate \in RangeDays : GetDatesBetween(startDate, endDate)

SpecRange == InitRange /\ [][NextRange]_vars

\* ---- the month grid as a function of the time zone, the year and the month
GridYears == {2025}
GridMonths == {MonthOf(year, month) : year \in GridYears, month \in 0..11}

InitGrid ==
  /\ bookings = <<>>
  /\ issued = 0
  /\ req = NoRequest
  /\ resp = NoResponse
  /\ inflight = <<>>
  /\ deleted = NoBody
  /\ tz = 0
  /\ zone \in GridZones
  /\ currentDate \in GridMonths
  /\ calendarDays = <<>>
  /\ isDragging = FALSE
  /\ dragStartDate = Null
  /\ internalSelectedDates = <<>>
  /\ currentSelectionRef = <<>>
  /\ autoScrollTimer = NoTimer
  /\ gMouseUp = TRUE
  /\ timers = <<>>
  /\ issuedTimers = 0
  /\ listener = NoListener
  /\ emitted = <<>>
  /\ emissions = 0
  /\ selectedDates = <<>>
  /\ event = NoEvent
  /\ FormClosed

\* the first render of CalendarGrid: const calendarDays = generateCalendarDays(year, month)
RenderGrid ==
  /\ ~Mounted
  /\ calendarDays' = generateCalendarDays(zone, currentDate.year, currentDate.month)
  /\ UNCHANGED <<zone, currentDate, isDragging, dragStartDate, internalSelectedDates,
                 currentSelectionRef, autoScrollTimer, gMouseUp, timers, issuedTimers,
                 listener, emitted, emissions, selectedDates, showBookingModal, event>>
  /\ UNCHANGED <<serverVars, formVars, call>>

NextGrid == RenderGrid

SpecGrid == InitGrid /\ [][NextGrid]_vars

\* ---------------------------------------------------------------- MemStorage
getBooking(store, id) == id \in DOMAIN store

\* MemStorage.getBookings: every stored booking
getBookings(store) == store

\* MemStorage.getBookingsByMonth: the stored bookings the filter keeps
getBookingsByMonth(store, offset, year, month) ==
  LET kept == {id \in DOMAIN store :
                 LET booking == store[id]
                     startDate == NewDate(booking.startDate)
                     endDate == NewDate(booking.endDate)
                     monthStart == LocalDate(offset, year, month - 1, 1, 0)
                     monthEnd == LocalDate(offset, year, month, 0, 0)
                 IN DateLeq(startDate, monthEnd) /\ DateGeq(endDate, monthStart)}
  IN [id \in kept |-> store[id]]

\* MongoStorage.getBookingsByMonth over the same bookings; dates are stored as
\* Date objects, and the month ends at 23:59:59 of its last day
MongoGetBookingsByMonth(store, offset, year, month) ==
  LET monthStart == LocalDate(offset, year, month - 1, 1, 0)
      monthEnd == LocalDate(offset, year, month, 0, 23 * 3600 + 59 * 60 + 59)
      found == {id \in DOMAIN store :
                  /\ DateLeq(NewDate(store[id].startDate), monthEnd)
                  /\ DateGeq(NewDate(store[id].endDate), monthStart)}
  IN [id \in found |-> store[id]]

\* MongoStorage.getBookingsByRoomId over the same bookings
MongoGetBookingsByRoomId(store, offset, roomId, year, month) ==
  LET monthStart == LocalDate(offset, year, month - 1, 1, 0)
      monthEnd == LocalDate(offset, year, month, 0, 23 * 3600 + 59 * 60 + 59)
      found == {id \in DOMAIN store :
                  /\ store[id].roomId = roomId
                  /\ DateLeq(NewDate(store[id].startDate), monthEnd)
                  /\ DateGeq(NewDate(store[id].endDate), monthStart)}
  IN [id \in found |-> store[id]]

\* variant: the excluded booking is scanned like any other
MutCheckIgnoresExclude(store, roomId, startDate, endDate, excludeBookingId) ==
  LET start == NewDate(startDate)
      end == NewDate(endDate)
  IN \E id \in DOMAIN store :
       LET booking == store[id] IN
         IF booking.roomId # roomId THEN FALSE
         ELSE DateLeq(start, NewDate(booking.endDate))
              /\ DateGeq(end, NewDate(booking.startDate))

\* variant: strict comparisons, so that a shared boundary day is no conflict
MutCheckHalfOpen(store, roomId, startDate, endDate, excludeBookingId) ==
  LET start == NewDate(startDate)
      end == NewDate(endDate)
  IN \E id \in DOMAIN store :
       LET booking == store[id] IN
         IF booking.id = excludeBookingId THEN FALSE
         ELSE IF booking.roomId # roomId THEN FALSE
         ELSE LET bookingStart == NewDate(booking.startDate)
                  bookingEnd == NewDate(booking.endDate)
              IN /\ DateLeq(start, bookingEnd) /\ start # bookingEnd
                 /\ DateGeq(end, bookingStart) /\ end # bookingStart

checkBookingConflict(store, roomId, startDate, endDate, excludeBookingId) ==
  LET start == NewDate(startDate)
      end == NewDate(endDate)
  IN \E id \in DOMAIN store :
       LET booking == store[id] IN
         IF booking.id = excludeBookingId THEN FALSE
         ELSE IF booking.roomId # roomId THEN FALSE
         ELSE LET bookingStart == NewDate(booking.startDate)
                  bookingEnd == NewDate(booking.endDate)
              IN DateLeq(start, bookingEnd) /\ DateGeq(end, bookingStart)

\* MongoStorage.checkBookingConflict over the same bookings: findOne with the room,
\* the _id condition and the two date comparisons; dates are stored as Date objects
MongoCheckBookingConflict(store, roomId, startDate, endDate, excludeBookingId) ==
  LET start == NewDate(startDate)
      end == NewDate(endDate)
  IN \E id \in DOMAIN store :
       /\ store[id].roomId = roomId
       /\ IF Truthy(excludeBookingId) THEN id # excludeBookingId ELSE TRUE
       /\ DateLeq(NewDate(store[id].startDate), end)
       /\ DateGeq(NewDate(store[id].endDate), start)

\* variant: the identifier generator repeats itself
MutRandomUUIDRepeats(n) == "b1"

\* randomUUID(): an identifier never handed out before
randomUUID(n) == "b" \o ToString(n + 1)

createBooking(store, n, insertBooking) ==
  LET id == randomUUID(n)
      booking == [id |-> id,
                  roomId |-> insertBooking.roomId,
                  customerName |-> insertBooking.customerName,
                  startDate |-> insertBooking.startDate,
                  endDate |-> insertBooking.endDate,
                  createdAt |-> n + 1]
  IN [k \in DOMAIN store \cup {id} |-> IF k = id THEN booking ELSE store[k]]

\* { ...existing, ...updates }
Spread(existing, updates) ==
  [k \in DOMAIN existing \cup DOMAIN updates |->
     IF k \in DOMAIN updates THEN updates[k] ELSE existing[k]]

\* variant: the merged record is stamped again
MutUpdateBookingRestamps(store, id, updates) ==
  IF id \notin DOMAIN store THEN store
  ELSE [store EXCEPT ![id] =
          [Spread(store[id], updates) EXCEPT !.createdAt = issued + 1]]

\* variant: the fields an update leaves out are emptied instead of kept
MutUpdateBookingReplaces(store, id, updates) ==
  IF id \notin DOMAIN store THEN store
  ELSE [store EXCEPT ![id] =
          [k \in DOMAIN store[id] |->
             IF k \in DOMAIN updates THEN updates[k]
             ELSE IF k \in {"id", "createdAt"} THEN store[id][k]
             ELSE ""]]

updateBooking(store, id, updates) ==
  IF id \notin DOMAIN store THEN store
  ELSE [store EXCEPT ![id] = Spread(store[id], updates)]

deleteBooking(store, id) == [k \in DOMAIN store \ {id} |-> store[k]]

\* ---------------------------------------------------------------- routes
Respond(op, status, conflict) ==
  /\ resp' = [op |-> op, status |-> status, hasConflict |-> conflict,
              body |-> NoBody]
  /\ req' = NoRequest

\* res.status(status).json(booking)
RespondJson(op, status, booking) ==
  /\ resp' = [op |-> op, status |-> status, hasConflict |-> FALSE, body |-> booking]
  /\ req' = NoRequest

\* GET /api/bookings
GetBookings(query) ==
  /\ IF Truthy(query.year) /\ Truthy(query.month)
     THEN RespondJson("list", 200,
                      getBookingsByMonth(bookings, tz, ParseInt[query.year],
                                         ParseInt[query.month]))
     ELSE RespondJson("list", 200, getBookings(bookings))
  /\ UNCHANGED storeVars

\* GET /api/room-bookings/:roomId
GetRoomBookings(roomId, query) ==
  /\ IF Truthy(query.year) /\ Truthy(query.month)
     THEN RespondJson("roomlist", 200,
                      MongoGetBookingsByRoomId(bookings, tz, roomId,
                                               ParseInt[query.year],
                                               ParseInt[query.month]))
     ELSE RespondJson("roomlist", 200, getBookings(bookings))
  /\ UNCHANGED storeVars

\* variant: a booking is handed out whether or not the id is stored
MutGetBookingAnswersAll(id) ==
  /\ RespondJson("get", 200, IF id \in DOMAIN bookings THEN bookings[id] ELSE NoBody)
  /\ UNCHANGED storeVars

\* GET /api/bookings/:id
GetBooking(id) ==
  /\ IF ~getBooking(bookings, id)
     THEN Respond("get", 404, FALSE)
     ELSE RespondJson("get", 200, bookings[id])
  /\ UNCHANGED storeVars

\* variant: the booking is written before the conflict is looked at
MutPostBookingWritesFirst(validatedData) ==
  /\ bookings' = createBooking(bookings, issued, validatedData)
  /\ issued' = issued + 1
  /\ IF checkBookingConflict(bookings, validatedData.roomId,
                             validatedData.startDate, validatedData.endDate,
                             Undefined)
     THEN Respond("create", 409, FALSE)
     ELSE Respond("create", 201, FALSE)

\* POST /api/bookings
PostBooking(validatedData) ==
  IF checkBookingConflict(bookings, validatedData.roomId,
                          validatedData.startDate, validatedData.endDate,
                          Undefined)
  THEN Respond("create", 409, FALSE) /\ UNCHANGED storeVars
  ELSE /\ bookings' = createBooking(bookings, issued, validatedData)
       /\ issued' = issued + 1
       /\ RespondJson("create", 201, bookings'[randomUUID(issued)])

\* PUT /api/bookings/:id : whether the conflict check runs
checksConflict(validatedData) ==
  \/ Truthy(Prop(validatedData, "roomId"))
  \/ Truthy(Prop(validatedData, "startDate"))
  \/ Truthy(Prop(validatedData, "endDate"))

\* PUT /api/bookings/:id : the room and interval handed to checkBookingConflict
checkedArgs(validatedData, existing) ==
  [roomId |-> OrElse(Prop(validatedData, "roomId"), existing.roomId),
   startDate |-> OrElse(Prop(validatedData, "startDate"), existing.startDate),
   endDate |-> OrElse(Prop(validatedData, "endDate"), existing.endDate)]

\* PUT /api/bookings/:id
PutBooking(id, validatedData) ==
  IF checksConflict(validatedData) /\ ~getBooking(bookings, id)
  THEN Respond("update", 404, FALSE) /\ UNCHANGED storeVars
  ELSE IF /\ checksConflict(validatedData)
          /\ LET args == checkedArgs(validatedData, bookings[id])
             IN checkBookingConflict(bookings, args.roomId, args.startDate,
                                     args.endDate, id)
  THEN Respond("update", 409, FALSE) /\ UNCHANGED storeVars
  ELSE IF ~getBooking(bookings, id)
  THEN Respond("update", 404, FALSE) /\ UNCHANGED storeVars
  ELSE /\ bookings' = updateBooking(bookings, id, validatedData)
       /\ RespondJson("update", 200, bookings'[id])
       /\ UNCHANGED issued

\* variant: a booking that shares its room with another booking is kept
MutDeleteBookingKeepsShared(id) ==
  IF id \in DOMAIN bookings
  THEN /\ bookings' = IF \E k \in DOMAIN bookings \ {id} :
                           bookings[k].roomId = bookings[id].roomId
                      THEN bookings
                      ELSE deleteBooking(bookings, id)
       /\ Respond("delete", 204, FALSE)
       /\ UNCHANGED issued
  ELSE Respond("delete", 404, FALSE) /\ UNCHANGED storeVars

\* DELETE /api/bookings/:id
DeleteBooking(id) ==
  IF id \in DOMAIN bookings
  THEN /\ bookings' = deleteBooking(bookings, id)
       /\ Respond("delete", 204, FALSE)
       /\ UNCHANGED issued
  ELSE Respond("delete", 404, FALSE) /\ UNCHANGED storeVars

\* variant: the advisory check drops the booking it was told to exclude
MutCheckConflictDrops(body) ==
  /\ IF ~Truthy(body.roomId) \/ ~Truthy(body.startDate) \/ ~Truthy(body.endDate)
     THEN Respond("check", 400, FALSE)
     ELSE Respond("check", 200,
                  checkBookingConflict(bookings, body.roomId, body.startDate,
                                       body.endDate, body.excludeBookingId))
  /\ bookings' = deleteBooking(bookings, body.excludeBookingId)
  /\ UNCHANGED issued

\* POST /api/bookings/check-conflict
CheckConflict(body) ==
  /\ IF ~Truthy(body.roomId) \/ ~Truthy(body.startDate) \/ ~Truthy(body.endDate)
     THEN Respond("check", 400, FALSE)
     ELSE Respond("check", 200,
                  checkBookingConflict(bookings, body.roomId, body.startDate,
                                       body.endDate, body.excludeBookingId))
  /\ UNCHANGED storeVars

\* ---------------------------------------------------------------- requests
CreateRequests ==
  {[op |-> "create", id |-> Undefined, body |-> p] : p \in insertBookingSchema}
UpdateRequests ==
  {[op |-> "update", id |-> id, body |-> p] : id \in BookingIds, p \in updateSchema}
GetRequests ==
  {[op |-> "get", id |-> id, body |-> <<>>] : id \in BookingIds}
DeleteRequests ==
  {[op |-> "delete", id |-> id, body |-> <<>>] : id \in BookingIds}
CheckRequests ==
  {[op |-> "check", id |-> Undefined, body |-> b] :
     b \in [roomId : RoomIds, startDate : DateStrings, endDate : DateStrings,
            excludeBookingId : BookingIds \cup {Undefined}]}

\* request r arrives once the previous one has been answered
Arrive(r) ==
  /\ req = NoRequest
  /\ resp = NoResponse
  /\ r.op = "create" => issued < MaxId
  /\ req' = r
  /\ UNCHANGED <<storeVars, resp, raceVars>>

Receive ==
  \E r \in CreateRequests \cup GetRequests \cup UpdateRequests
            \cup DeleteRequests \cup CheckRequests : Arrive(r)

ServeCreate == req.op = "create" /\ PostBooking(req.body) /\ UNCHANGED raceVars
ServeGet == req.op = "get" /\ GetBooking(req.id) /\ UNCHANGED raceVars
ServeUpdate == req.op = "update" /\ PutBooking(req.id, req.body) /\ UNCHANGED raceVars
ServeDelete == req.op = "delete" /\ DeleteBooking(req.id) /\ UNCHANGED raceVars
ServeCheck == req.op = "check" /\ CheckConflict(req.body) /\ UNCHANGED raceVars

\* the client takes the response
Deliver ==
  /\ resp # NoResponse
  /\ resp' = NoResponse
  /\ UNCHANGED <<storeVars, req, raceVars>>

Init ==
  /\ bookings = <<>>
  /\ issued = 0
  /\ req = NoRequest
  /\ resp = NoResponse
  /\ inflight = <<>>
  /\ deleted = NoBody
  /\ tz = 0
  /\ NoGrid

Next ==
  \/ Receive
  \/ ServeCreate
  \/ ServeGet
  \/ ServeUpdate
  \/ ServeDelete
  \/ ServeCheck
  \/ Deliver

\* the booking routes, one request at a time
Spec == Init /\ [][Next]_vars

\* ---------------------------------------------------------------- create, get, delete
\* the requests that create, read and delete bookings
ReceiveLifecycle ==
  \E r \in CreateRequests \cup GetRequests \cup DeleteRequests : Arrive(r)

\* DELETE /api/bookings/:id, with the removed booking remembered
ServeDeleteLogged ==
  /\ req.op = "delete"
  /\ DeleteBooking(req.id)
  /\ deleted' = IF req.id \in DOMAIN bookings THEN bookings[req.id] ELSE deleted
  /\ UNCHANGED <<inflight, tz, clientVars>>

NextLifecycle ==
  \/ ReceiveLifecycle
  \/ ServeCreate
  \/ ServeGet
  \/ ServeDeleteLogged
  \/ Deliver

\* bookings are created, read and deleted, one request at a time
SpecLifecycle == Init /\ [][NextLifecycle]_vars

\* ---------------------------------------------------------------- month queries
QueryRooms == {"green-room", "red-room"}
\* create requests with days around the ends of a month
MonthCreateRequests ==
  {[op |-> "create", id |-> Undefined,
    body |-> [roomId |-> r, customerName |-> "Ann", startDate |-> s, endDate |-> e]] :
     r \in QueryRooms, s \in MonthDays, e \in MonthDays}
\* req.query of the two list routes: year and month, each given or not
Queries == [year : QueryYears \cup {Undefined}, month : QueryMonths \cup {Undefined}]
ListRequests == {[op |-> "list", id |-> Undefined, body |-> q] : q \in Queries}
RoomListRequests == {[op |-> "roomlist", id |-> r, body |-> q] : r \in QueryRooms, q \in Queries}

ReceiveQuery ==
  \E r \in MonthCreateRequests \cup ListRequests \cup RoomListRequests : Arrive(r)
ServeList == req.op = "list" /\ GetBookings(req.body) /\ UNCHANGED raceVars
ServeRoomList ==
  req.op = "roomlist" /\ GetRoomBookings(req.id, req.body) /\ UNCHANGED raceVars

InitQuery ==
  /\ bookings = <<>>
  /\ issued = 0
  /\ req = NoRequest
  /\ resp = NoResponse
  /\ inflight = <<>>
  /\ deleted = NoBody
  /\ tz \in TimeZoneOffsets
  /\ NoGrid

NextQuery ==
  \/ ReceiveQuery
  \/ ServeCreate
  \/ ServeList
  \/ ServeRoomList
  \/ Deliver

\* bookings are created and listed, by month and by room
SpecQuery == InitQuery /\ [][NextQuery]_vars

\* ---------------------------------------------------------------- concurrent creates
Clients == {"c1", "c2"}

\* POST /api/bookings up to its first await: hasConflict is computed
RaceCheck(c) ==
  /\ inflight[c].pc = "check"
  /\ LET body == inflight[c].body
         conflict == checkBookingConflict(bookings, body.roomId,
                                          body.startDate, body.endDate, Undefined)
     IN inflight' = [inflight EXCEPT ![c].hasConflict = conflict,
                                     ![c].pc = IF conflict THEN "done" ELSE "create",
                                     ![c].status = IF conflict THEN 409 ELSE 0]
  /\ UNCHANGED <<storeVars, httpVars, deleted, tz, clientVars>>

\* variant: the store looks for a conflict again when it commits
MutRaceCreateRechecks(c) ==
  /\ inflight[c].pc = "create"
  /\ issued < MaxId
  /\ LET body == inflight[c].body IN
       IF checkBookingConflict(bookings, body.roomId, body.startDate,
                               body.endDate, Undefined)
       THEN /\ inflight' = [inflight EXCEPT ![c].pc = "done", ![c].status = 409]
            /\ UNCHANGED storeVars
       ELSE /\ bookings' = createBooking(bookings, issued, body)
            /\ issued' = issued + 1
            /\ inflight' = [inflight EXCEPT ![c].pc = "done", ![c].status = 201]
  /\ UNCHANGED <<httpVars, deleted, tz, clientVars>>

\* POST /api/bookings after the check: the booking is committed and answered
RaceCreate(c) ==
  /\ inflight[c].pc = "create"
  /\ issued < MaxId
  /\ bookings' = createBooking(bookings, issued, inflight[c].body)
  /\ issued' = issued + 1
  /\ inflight' = [inflight EXCEPT ![c].pc = "done", ![c].status = 201]
  /\ UNCHANGED <<httpVars, deleted, tz, clientVars>>

InitRace ==
  /\ bookings = <<>>
  /\ issued = 0
  /\ req = NoRequest
  /\ resp = NoResponse
  /\ deleted = NoBody
  /\ tz = 0
  /\ NoGrid
  /\ inflight \in [Clients -> {[body |-> p, pc |-> "check", hasConflict |-> FALSE,
                                status |-> 0] : p \in insertBookingSchema}]

NextRace ==
  \/ \E c \in Clients : RaceCheck(c)
  \/ \E c \in Clients : RaceCreate(c)

\* two create requests whose steps interleave at the handler's awaits
SpecRace == InitRace /\ [][NextRace]_vars

\* ---------------------------------------------------------------- properties
\* calendar order of day strings; a string that is no day is in no order
DayLeq(s, t) == s \in Days /\ t \in Days /\ DayOfMonth[s] <= DayOfMonth[t]
IsNextDay(s, t) == s \in Days /\ t \in Days /\ DayOfMonth[t] = DayOfMonth[s] + 1
\* start_a <= end_b AND end_a >= start_b
Overlaps(a, b) == DayLeq(a.startDate, b.endDate) /\ DayLeq(b.startDate, a.endDate)
\* some stored booking other than `except`, on the room of r, overlaps r
OtherOverlaps(store, r, except) ==
  \E k \in DOMAIN store \ {except} :
    store[k].roomId = r.roomId /\ Overlaps(r, store[k])
\* no request is being served: the store is as the last request left it
Settled == req = NoRequest
SuppliesRoomOrDates(p) == DOMAIN p \cap {"roomId", "startDate", "endDate"} # {}

\* C1: no two stored bookings with distinct ids and the same room id have
\* overlapping closed intervals.
NoDoubleBooking ==
  \A a, b \in DOMAIN bookings :
    a # b /\ bookings[a].roomId = bookings[b].roomId
      => ~Overlaps(bookings[a], bookings[b])

\* C2: on every store the routes leave behind, for every room, every interval with
\* start <= end and every optional excludeBookingId, checkBookingConflict (of the
\* in-memory store, and the document store's query over the same bookings) answers
\* true exactly when some stored booking of that room, other than the excluded
\* one, overlaps the interval.
ConflictIffOverlap ==
  \A roomId \in RoomIds, s \in Days, e \in Days,
     exclude \in BookingIds \cup {Undefined} :
    Settled /\ DayLeq(s, e) =>
      LET overlapped == \E k \in DOMAIN bookings :
                          /\ bookings[k].roomId = roomId
                          /\ k # exclude
                          /\ DayLeq(s, bookings[k].endDate)
                          /\ DayLeq(bookings[k].startDate, e)
      IN /\ checkBookingConflict(bookings, roomId, s, e, exclude) <=> overlapped
         /\ MongoCheckBookingConflict(bookings, roomId, s, e, exclude) <=> overlapped

\* C2 witness: a store where a booking conflicts with an interval and is the only
\* one to do so, so that excluding it changes the answer, next to a booking of
\* another room.
ExclusionDecides ==
  \E k \in DOMAIN bookings, s \in Days, e \in Days :
    /\ DayLeq(s, e)
    /\ checkBookingConflict(bookings, bookings[k].roomId, s, e, Undefined)
    /\ ~checkBookingConflict(bookings, bookings[k].roomId, s, e, k)
    /\ \E j \in DOMAIN bookings : bookings[j].roomId # bookings[k].roomId

\* C3: on every store the routes leave behind, for a stored booking [s, e] of room
\* R (s <= e), an interval on R that starts on day e or ends on day s conflicts; an
\* interval that starts on day e + 1 or ends on day s - 1, and overlaps no other
\* booking, does not.
TouchingConflictsGapDoesNot ==
  \A k \in DOMAIN bookings : \A x \in Days, y \in Days :
    LET b == bookings[k]
        conflict == checkBookingConflict(bookings, b.roomId, x, y, Undefined)
        probe == [roomId |-> b.roomId, startDate |-> x, endDate |-> y]
    IN Settled /\ DayLeq(b.startDate, b.endDate) /\ DayLeq(x, y) =>
         /\ (x = b.endDate \/ y = b.startDate) => conflict
         /\ ((IsNextDay(b.endDate, x) \/ IsNextDay(y, b.startDate))
               /\ ~OtherOverlaps(bookings, probe, k)) => ~conflict

\* C3 witness: a stored booking with a following day, for which the interval
\* starting on its last day conflicts and the one starting a day later does not.
TouchingAndGapSeen ==
  \E k \in DOMAIN bookings : \E x \in Days :
    /\ DayLeq(bookings[k].startDate, bookings[k].endDate)
    /\ IsNextDay(bookings[k].endDate, x)
    /\ checkBookingConflict(bookings, bookings[k].roomId, bookings[k].endDate, x,
                            Undefined)
    /\ ~checkBookingConflict(bookings, bookings[k].roomId, x, x, Undefined)

\* C4: an update of booking X that supplies dates and/or a room, and whose
\* resulting record overlaps no booking other than X on the resulting room, is not
\* answered 409 and is applied.
UpdateNotBlockedBySelf ==
  [][(/\ req.op = "update"
      /\ req.id \in DOMAIN bookings
      /\ SuppliesRoomOrDates(req.body)
      /\ ~OtherOverlaps(bookings, Spread(bookings[req.id], req.body), req.id))
     => /\ resp'.status # 409
        /\ bookings' = [bookings EXCEPT ![req.id] = Spread(bookings[req.id], req.body)]
    ]_vars

\* C5: a create request whose interval overlaps a stored booking of the same room
\* is answered 409 and leaves the stored bookings as they were.
CreateConflictRejected ==
  [][(req.op = "create" /\ OtherOverlaps(bookings, req.body, Undefined))
     => /\ resp'.op = "create"
        /\ resp'.status = 409
        /\ bookings' = bookings
    ]_vars

\* C5 witness: a create has just been answered 409 while a booking is stored.
CreateAnswered409 ==
  resp.op = "create" /\ resp.status = 409 /\ DOMAIN bookings # {}

\* C6: for an update that supplies a room id, start date or end date, the room and
\* interval handed to the conflict check are those of the record after the update,
\* and when that record overlaps another booking the request is answered 409 and
\* no booking changes.
UpdateChecksResult ==
  [][(/\ req.op = "update"
      /\ req.id \in DOMAIN bookings
      /\ SuppliesRoomOrDates(req.body))
     => LET result == Spread(bookings[req.id], req.body) IN
          /\ checkedArgs(req.body, bookings[req.id])
               = [roomId |-> result.roomId, startDate |-> result.startDate,
                  endDate |-> result.endDate]
          /\ OtherOverlaps(bookings, result, req.id)
               => resp'.status = 409 /\ bookings' = bookings
    ]_vars

\* C7: every stored booking has start <= end (stated for the bookings whose two
\* dates are calendar days).
StartNotAfterEnd ==
  \A k \in DOMAIN bookings :
    bookings[k].startDate \in Days /\ bookings[k].endDate \in Days
      => DayLeq(bookings[k].startDate, bookings[k].endDate)

\* C8: when the steps of two create requests interleave, a request whose conflict
\* check answered false is committed and answered 201 whatever the other request
\* has committed in between, so two overlapping bookings of one room can both be
\* stored.
RaceCommitsUnchecked ==
  \A c \in DOMAIN inflight :
    inflight[c].pc = "done" /\ ~inflight[c].hasConflict
      => /\ inflight[c].status = 201
         /\ \E k \in DOMAIN bookings :
              /\ bookings[k].roomId = inflight[c].body.roomId
              /\ bookings[k].startDate = inflight[c].body.startDate
              /\ bookings[k].endDate = inflight[c].body.endDate

\* C8 witness: both requests were answered 201 after checks that saw no conflict,
\* and the two stored bookings are on one room with overlapping intervals.
RaceDoubleBooked ==
  /\ \A c \in DOMAIN inflight :
       inflight[c].pc = "done" /\ inflight[c].status = 201 /\ ~inflight[c].hasConflict
  /\ \E a, b \in DOMAIN bookings :
       /\ a # b
       /\ bookings[a].roomId = bookings[b].roomId
       /\ Overlaps(bookings[a], bookings[b])

\* C9: a request to the check-conflict endpoint leaves the set of stored bookings
\* and every field of every booking unchanged.
CheckLeavesStore ==
  [][req.op = "check" => bookings' = bookings /\ issued' = issued]_vars

\* C9 witness: the endpoint has just reported a conflict against a stored booking.
CheckReportedConflict ==
  resp.op = "check" /\ resp.status = 200 /\ resp.hasConflict /\ DOMAIN bookings # {}

\* C10: an accepted update leaves the booking's id and creation timestamp, every
\* field it does not supply, and every other booking unchanged; the supplied
\* fields take the supplied values.
UpdateMergesSupplied ==
  [][(req.op = "update" /\ resp'.status = 200)
     => /\ DOMAIN bookings' = DOMAIN bookings
        /\ req.id \in DOMAIN bookings
        /\ \A k \in DOMAIN bookings \ {req.id} : bookings'[k] = bookings[k]
        /\ DOMAIN bookings'[req.id] = DOMAIN bookings[req.id]
        /\ bookings'[req.id].id = bookings[req.id].id
        /\ bookings'[req.id].createdAt = bookings[req.id].createdAt
        /\ \A f \in InsertFields :
             bookings'[req.id][f] =
               IF f \in DOMAIN req.body THEN req.body[f] ELSE bookings[req.id][f]
    ]_vars

\* C10 witness: an update has just been accepted while another booking, created
\* earlier or later, is stored next to the updated one.
UpdateAccepted ==
  resp.op = "update" /\ resp.status = 200 /\ Cardinality(DOMAIN bookings) > 1

\* C11: a get, an update (whether or not it supplies a room or dates) and a delete
\* that name an id no stored booking has are each answered 404 and leave the
\* store unchanged.
AbsentIdNotFound ==
  [][(req.op \in {"get", "update", "delete"} /\ req.id \notin DOMAIN bookings)
     => /\ resp'.op = req.op
        /\ resp'.status = 404
        /\ resp'.body = NoBody
        /\ bookings' = bookings
        /\ issued' = issued
    ]_vars

\* C11 witness: a request has just been answered 404 for an id that was handed out
\* and deleted, while another booking is stored.
AbsentIdAnswered404 ==
  /\ resp.op \in {"get", "update", "delete"}
  /\ resp.status = 404
  /\ issued = MaxId
  /\ Cardinality(DOMAIN bookings) = 1

\* C12: a delete of a stored booking is answered 204 whatever else is stored,
\* removes that booking and leaves the others as they were; from then on a get
\* and a delete of that id are answered 404, and a create for the removed
\* booking's room and interval that overlaps no stored booking is answered 201
\* and stored.
DeleteUnconditional ==
  [][/\ (req.op = "delete" /\ req.id \in DOMAIN bookings)
          => /\ resp'.status = 204
             /\ DOMAIN bookings' = DOMAIN bookings \ {req.id}
             /\ \A k \in DOMAIN bookings' : bookings'[k] = bookings[k]
     /\ (req.op \in {"get", "delete"} /\ deleted # NoBody /\ req.id = deleted.id)
          => /\ resp'.status = 404
             /\ bookings' = bookings
     /\ (/\ req.op = "create"
         /\ deleted # NoBody
         /\ req.body.roomId = deleted.roomId
         /\ req.body.startDate = deleted.startDate
         /\ req.body.endDate = deleted.endDate
         /\ ~OtherOverlaps(bookings, req.body, Undefined))
          => /\ resp'.status = 201
             /\ resp'.body \in {bookings'[k] : k \in DOMAIN bookings'}
             /\ resp'.body.id # deleted.id
    ]_vars

\* C12 witness: a booking whose dates are calendar days was deleted, and a create
\* for its room and interval has just been answered 201 under another id.
DeletedIntervalRebooked ==
  /\ deleted # NoBody
  /\ resp.op = "create"
  /\ resp.status = 201
  /\ resp.body.roomId = deleted.roomId
  /\ resp.body.startDate = deleted.startDate
  /\ resp.body.endDate = deleted.endDate
  /\ deleted.startDate \in Days
  /\ deleted.endDate \in Days
  /\ deleted.id \notin DOMAIN bookings

\* C13: an accepted create adds exactly one booking, under an id no stored booking
\* has, made of the request's fields; the response carries that stored record and
\* every booking stored before is unchanged.
CreateAddsOne ==
  [][(req.op = "create" /\ resp'.status = 201)
     => \E id \in DOMAIN bookings' \ DOMAIN bookings :
          /\ DOMAIN bookings' = DOMAIN bookings \cup {id}
          /\ bookings'[id].id = id
          /\ \A f \in InsertFields : bookings'[id][f] = req.body[f]
          /\ resp'.body = bookings'[id]
          /\ \A k \in DOMAIN bookings : bookings'[k] = bookings[k]
    ]_vars

\* C13 witness: a create has just been answered 201 with the new record, next to
\* a booking stored before it.
CreateAddedSecond ==
  /\ resp.op = "create"
  /\ resp.status = 201
  /\ resp.body.id \in DOMAIN bookings
  /\ Cardinality(DOMAIN bookings) = 2

\* calendar order of the days of the month queries
OrdinalLeq(s, t) == s \in MonthDays /\ t \in MonthDays /\ DayOrdinal[s] <= DayOrdinal[t]
\* booking b starts on or before the last day of the month and ends on or after
\* its first day
IntersectsMonth(b, month) ==
  /\ b.startDate \in MonthDays
  /\ b.endDate \in MonthDays
  /\ DayOrdinal[b.startDate] <= FirstOfMonth[month + 1] - 1
  /\ DayOrdinal[b.endDate] >= FirstOfMonth[month]
\* the stored bookings that intersect the month
MonthBookings(store, month) ==
  [id \in {k \in DOMAIN store : IntersectsMonth(store[k], month)} |-> store[id]]

\* C14: the month query answers with exactly the stored bookings that start on or
\* before the last day of the month and end on or after its first day, from the
\* in-memory store and from the document store's query over the same bookings.
MonthQueryExact ==
  [][(req.op = "list" /\ Truthy(req.body.year) /\ Truthy(req.body.month))
     => LET month == ParseInt[req.body.month]
            year == ParseInt[req.body.year]
        IN /\ resp'.body = MonthBookings(bookings, month)
           /\ MongoGetBookingsByMonth(bookings, tz, year, month)
                = MonthBookings(bookings, month)
    ]_vars

\* C15: every booking the room-scoped query answers with for room R has room id R
\* and, when a year and a month are given, intersects that month.
RoomQueryScoped ==
  [][req.op = "roomlist"
     => \A k \in DOMAIN resp'.body :
          /\ resp'.body[k].roomId = req.id
          /\ (Truthy(req.body.year) /\ Truthy(req.body.month))
               => IntersectsMonth(resp'.body[k], ParseInt[req.body.month])
    ]_vars

\* the calendar days from day a to day b, each once, in order
DenseRange(a, b) ==
  [i \in 1..(ClientDayOrdinal[b] - ClientDayOrdinal[a] + 1) |->
     ClientDayStrings[ClientDayOrdinal[a] - ClientFirstOrdinal + i]]
EarlierDay(a, b) == IF ClientDayOrdinal[a] <= ClientDayOrdinal[b] THEN a ELSE b
LaterDay(a, b) == IF ClientDayOrdinal[a] <= ClientDayOrdinal[b] THEN b ELSE a
PointerUp(e) == e.type \in {"touchend", "mouseup"}

\* C16: after a pointer-down on the cell of date D the grid is dragging, the
\* anchor is D and the selection, shown and kept for the release, is D alone.
DownSeedsSelection ==
  [][event'.type = "down"
     => /\ isDragging'
        /\ dragStartDate' = event'.dateString
        /\ internalSelectedDates' = <<event'.dateString>>
        /\ currentSelectionRef' = <<event'.dateString>>
    ]_vars

\* C16 witness: a second gesture has just begun with a pointer-down, after the
\* first one was released.
SecondGestureBegun ==
  /\ event.type = "down"
  /\ isDragging
  /\ dragStartDate = event.dateString
  /\ currentSelectionRef = <<dragStartDate>>
  /\ emissions = 1

\* C17: while dragging, after a pointer-enter on the cell of date D' the selection
\* is the calendar days from the earlier to the later of the anchor and D', each
\* once and in order.
EnterSelectsDenseRange ==
  [][(event'.type = "enter" /\ isDragging)
     => LET dense == DenseRange(EarlierDay(dragStartDate, event'.dateString),
                               LaterDay(dragStartDate, event'.dateString))
        IN /\ internalSelectedDates' = dense
           /\ currentSelectionRef' = dense
    ]_vars

\* C18: from one dragging state to the next the anchor is the same, whatever the
\* event in between.
AnchorFixedWhileDragging ==
  [][(isDragging /\ isDragging') => dragStartDate' = dragStartDate]_vars

\* C19: a pointer-up while dragging ends the drag and hands the selection to
\* onDatesSelected once; a pointer-up while idle, such as the mouseup that follows
\* a touchend, hands nothing over; no other event hands anything over, and none
\* but leaving the page ends a drag.
ReleaseEmitsOnce ==
  [][/\ (PointerUp(event') /\ isDragging)
          => /\ ~isDragging'
             /\ emissions' = emissions + 1
             /\ emitted' = sortDates(currentSelectionRef)
     /\ (PointerUp(event') /\ ~isDragging)
          => /\ ~isDragging'
             /\ emissions' = emissions
             /\ emitted' = emitted
     /\ ~PointerUp(event')
          => /\ emissions' = emissions
             /\ emitted' = emitted
             /\ (isDragging /\ event'.type # "unmount") => isDragging'
    ]_vars

\* C19 witness: two gestures were released, the second one over more than one day,
\* and the last event was a mouseup.
TwoGesturesReleased ==
  /\ event.type = "mouseup"
  /\ ~isDragging
  /\ emissions = MaxEmissions
  /\ Len(emitted) > 1

\* C20: every selection handed to onDatesSelected is non-empty, strictly ascending
\* in date order, without a missing day between its first and last date, and
\* holds the anchor of the gesture it ends.
EmittedIsDenseAroundAnchor ==
  [][emissions' # emissions
     => /\ Len(emitted') > 0
        /\ \A i \in 1..(Len(emitted') - 1) :
             ClientDayOrdinal[emitted'[i + 1]] = ClientDayOrdinal[emitted'[i]] + 1
        /\ \E i \in 1..Len(emitted') : emitted'[i] = dragStartDate
    ]_vars

\* C21: a drag is never stuck. In every dragging state the mouseup listener is on
\* window and the selection kept for the release is the one shown and is not
\* empty; the next mouseup, wherever the pointer is, ends the drag and hands
\* exactly that selection, in date order, to onDatesSelected.
DragAlwaysReleasable ==
  [][/\ isDragging'
          => /\ listener'.registered
             /\ currentSelectionRef' = internalSelectedDates'
             /\ Len(currentSelectionRef') > 0
     /\ (event'.type = "mouseup" /\ isDragging)
          => /\ ~isDragging'
             /\ ~listener'.registered
             /\ emissions' = emissions + 1
             /\ emitted' = sortDates(internalSelectedDates)
             /\ selectedDates' = emitted'
    ]_vars

\* C21 witness: a mouseup on window has just ended the first drag, which had paged
\* to another month, and handed over a selection of several days.
DragReleasedAfterPaging ==
  /\ event.type = "mouseup"
  /\ ~isDragging
  /\ emissions = 1
  /\ Len(emitted) > 1
  /\ selectedDates = emitted
  /\ internalSelectedDates = emitted
  /\ calendarDays # <<>>
  /\ \E i \in 1..Len(calendarDays) :
        calendarDays[i].isCurrentMonth /\ calendarDays[i].dateString = "2025-04-15"
  /\ zone = UTCZone

\* C22: a pointer-enter outside a drag changes nothing: the grid stays idle, the
\* anchor, the selection and the ref are as before, no timer is started or
\* cleared, and nothing is handed to onDatesSelected.
EnterWhileIdleIsNoOp ==
  [][(event'.type = "enter" /\ ~isDragging)
     => /\ ~isDragging'
        /\ dragStartDate' = dragStartDate
        /\ internalSelectedDates' = internalSelectedDates
        /\ currentSelectionRef' = currentSelectionRef
        /\ timers' = timers
        /\ autoScrollTimer' = autoScrollTimer
        /\ issuedTimers' = issuedTimers
        /\ emissions' = emissions
        /\ emitted' = emitted
        /\ UNCHANGED gridVars
    ]_vars

\* C22 witness: a pointer-enter while idle, with a timer of the released drag
\* still pending and its selection still in place.
EnteredWhileIdle ==
  /\ event.type = "enter"
  /\ ~isDragging
  /\ autoScrollTimer \in DOMAIN timers
  /\ emissions = 1
  /\ internalSelectedDates = emitted

\* the position in the grid of the cell with this dateString
CellIndex(days, dateString) ==
  CHOOSE i \in 1..Len(days) : days[i].dateString = dateString
\* the months from January of year 0 to the month of this day
MonthNumber(dateString) ==
  LET civil == CivilDate(ClientDayOrdinal[dateString])
  IN civil.year * 12 + (civil.month - 1)
ShownMonthNumber == currentDate.year * 12 + currentDate.month

\* C23: a timer is started only by a pointer-enter during a drag, and only on
\* the last cell of the grid when its date is in a later month than the one
\* shown, or on the first cell when its date is in an earlier month.
TimerOnlyOnOutsideCorner ==
  [][issuedTimers' # issuedTimers
     => /\ event'.type = "enter"
        /\ isDragging
        /\ LET i == CellIndex(calendarDays, event'.dateString)
           IN \/ /\ i = Len(calendarDays)
                 /\ MonthNumber(event'.dateString) > ShownMonthNumber
              \/ /\ i = 1
                 /\ MonthNumber(event'.dateString) < ShownMonthNumber
    ]_vars

\* the timer whose callback ran in this step
FiredTimer == CHOOSE id \in DOMAIN timers : id \notin DOMAIN timers'
\* the drag that started this timer has not been released
SameGestureDragging(captured) == isDragging /\ captured.gesture = emissions

\* C24: when a timer's callback runs during the drag that started it, the month
\* shown moves by one month, forward if the timer was started on the last cell
\* and backward if on the first, the timer is gone, and the selection is the
\* calendar days between the anchor and the date of the cell that started the
\* timer, each once and in order.
TimerPagesOneMonth ==
  [][(event'.type = "timer" /\ SameGestureDragging(timers[FiredTimer]))
     => LET captured == timers[FiredTimer]
            cell == CellIndex(calendarDays, captured.dateString)
            dense == DenseRange(EarlierDay(dragStartDate, captured.dateString),
                                LaterDay(dragStartDate, captured.dateString))
        IN /\ cell \in {1, Len(calendarDays)}
           /\ currentDate'
                = MonthOf(currentDate.year,
                          currentDate.month + (IF cell = 1 THEN -1 ELSE 1))
           /\ FiredTimer \notin DOMAIN timers'
           /\ isDragging'
           /\ dragStartDate' = dragStartDate
           /\ internalSelectedDates' = dense
           /\ currentSelectionRef' = dense
    ]_vars

\* C25: once the drag that started a timer has been released, by a touchend on
\* the grid or by the mouseup listener on window, or the grid has left the page,
\* the timer's callback changes neither the month shown nor the selection.
NoPagingAfterRelease ==
  [][(event'.type = "timer" /\ ~SameGestureDragging(timers[FiredTimer]))
     => /\ currentDate' = currentDate
        /\ calendarDays' = calendarDays
        /\ internalSelectedDates' = internalSelectedDates
        /\ currentSelectionRef' = currentSelectionRef
    ]_vars

\* C26: at most one timer is pending, and it is the one the autoScrollTimer state
\* holds; a pointer-enter during a drag leaves no timer pending that was pending
\* before it, so a timer started on a corner cell does not run once the pointer
\* has entered a cell again.
OneTimerPending ==
  [][/\ Cardinality(DOMAIN timers') <= 1
     /\ DOMAIN timers' \subseteq {autoScrollTimer'}
     /\ (event'.type = "enter" /\ isDragging)
          => DOMAIN timers' \cap DOMAIN timers = {}
    ]_vars

\* C26 witness: within the first drag the pointer entered the last cell, which
\* started a timer, and then entered it again: the first timer was cleared before
\* it ran, and the second one is the only one pending.
SecondTimerReplacedFirst ==
  /\ event.type = "enter"
  /\ isDragging
  /\ emissions = 0
  /\ currentDate = MonthOf(2025, 2)
  /\ issuedTimers = 2
  /\ DOMAIN timers = {2}
  /\ autoScrollTimer = 2

\* C27: drags and grids do not disturb each other. The callback of a timer
\* started in an earlier drag changes neither the month shown nor the selection
\* of the drag going on; and the callback of a timer started in the drag going
\* on pages the month whatever pointer-up another grid has handled meanwhile.
GesturesDoNotInterfere ==
  [][event'.type = "timer"
     => LET captured == timers[FiredTimer]
        IN /\ (isDragging /\ captured.gesture < emissions)
                => /\ currentDate' = currentDate
                   /\ internalSelectedDates' = internalSelectedDates
                   /\ currentSelectionRef' = currentSelectionRef
           /\ SameGestureDragging(captured)
                => currentDate'
                     = MonthOf(captured.currentYear,
                               captured.currentMonth
                                 + (IF captured.shouldScrollNext THEN 1 ELSE -1))
    ]_vars

\* the dates of a list, as a set
DatesOf(dates) == {dates[k] : k \in 1..Len(dates)}

\* C28: during a drag the highlighted cells are those whose date is in the
\* internal selection, outside a drag those whose date is in the selection given
\* by the page; a cell whose date is only in the other list is not highlighted.
HighlightHasOneSource ==
  \A i \in 1..Len(calendarDays) :
    LET date == calendarDays[i].dateString
    IN /\ isDragging => (isSelected(calendarDays[i]) <=> date \in DatesOf(internalSelectedDates))
       /\ ~isDragging => (isSelected(calendarDays[i]) <=> date \in DatesOf(selectedDates))

\* C28 witness: outside a drag, after the booking modal was closed, a cell whose
\* date is still in internalSelectedDates from the last drag is not highlighted,
\* the page giving no dates.
StaleInternalNotShown ==
  /\ ~isDragging
  /\ event.type = "close"
  /\ selectedDates = <<>>
  /\ \E i \in 1..Len(calendarDays) :
        /\ calendarDays[i].dateString \in DatesOf(internalSelectedDates)
        /\ ~isSelected(calendarDays[i])

\* the calendar day a cell stands for, by its dateString
CellDay(cell) == ClientDayOrdinal[cell.dateString]

\* C29: the grid of a month has a multiple of 7 cells; its first cell is the
\* Sunday on or next before the 1st, its last cell the Saturday on or next after
\* the last day of the month; each cell is the day after the cell before it; and
\* isCurrentMonth is set on exactly the days of the month.
GridCoversMonthInWeeks ==
  Mounted
    => LET n == Len(calendarDays)
           first == FirstDayOfMonth(currentDate.year, currentDate.month)
           last == FirstDayOfMonth(currentDate.year, currentDate.month + 1) - 1
       IN /\ n > 0
          /\ n % 7 = 0
          /\ GetDay(CellDay(calendarDays[1])) = 0
          /\ CellDay(calendarDays[1]) <= first
          /\ CellDay(calendarDays[1]) > first - 7
          /\ GetDay(CellDay(calendarDays[n])) = 6
          /\ CellDay(calendarDays[n]) >= last
          /\ CellDay(calendarDays[n]) < last + 7
          /\ \A i \in 1..(n - 1) :
               CellDay(calendarDays[i + 1]) = CellDay(calendarDays[i]) + 1
          /\ \A i \in 1..n :
               calendarDays[i].isCurrentMonth
                 <=> (first <= CellDay(calendarDays[i]) /\ CellDay(calendarDays[i]) <= last)

\* the number of flags set among these
FlagsSet(cell) ==
  (IF cell.isPrevMonth THEN 1 ELSE 0) + (IF cell.isCurrentMonth THEN 1 ELSE 0)
    + (IF cell.isNextMonth THEN 1 ELSE 0)

\* C30: in the grid of any month, each cell has exactly one of isPrevMonth,
\* isCurrentMonth and isNextMonth set, the December cells of a January grid and
\* the January cells of a December grid included.
OneMonthFlagPerCell ==
  \A i \in 1..Len(calendarDays) : FlagsSet(calendarDays[i]) = 1

\* C31: getDatesBetween(start, end) with start not after end is the calendar days
\* from start to end, both included, in ascending order and each once: as many
\* as the days between them plus one, and the one day when start = end.
RangeIsEveryDayOnce ==
  call.fn = "getDatesBetween"
    => /\ call.result = DenseRange(call.startDate, call.endDate)
       /\ Len(call.result)
            = ClientDayOrdinal[call.endDate] - ClientDayOrdinal[call.startDate] + 1
       /\ call.startDate = call.endDate => call.result = <<call.startDate>>

\* C32: the create request sent by the form's submit has as start the earliest and
\* as end the latest of the selected dates, in whatever order they were handed to
\* the page, so its start is not after its end.
SubmitSendsEarliestAndLatest ==
  [][event'.type = "submit" /\ createBookingMutation'.pending
       => LET booking == createBookingMutation'.booking
              chosen == DatesOf(selectedDates)
          IN /\ booking.startDate \in chosen
             /\ booking.endDate \in chosen
             /\ \A d \in chosen :
                  /\ ClientDayOrdinal[booking.startDate] <= ClientDayOrdinal[d]
                  /\ ClientDayOrdinal[d] <= ClientDayOrdinal[booking.endDate]
             /\ ClientDayOrdinal[booking.startDate] <= ClientDayOrdinal[booking.endDate]]_vars

\* a create request is in flight for dates that were handed over latest first
SubmittedFromUnsortedDates ==
  /\ event.type = "submit"
  /\ createBookingMutation.pending
  /\ createBookingMutation.booking.startDate = "2025-03-29"
  /\ createBookingMutation.booking.endDate = "2025-03-31"
  /\ Len(selectedDates) = 2


\* stored booking k has the room and the interval of payload p
SameRoomAndInterval(store, k, p) ==
  /\ store[k].roomId = p.roomId
  /\ store[k].startDate = p.startDate
  /\ store[k].endDate = p.endDate

\* C33: the same create request, with start <= end, sent twice in a row commits at
\* most one booking. A create answered 201 leaves a booking with the request's room
\* and interval in the store, and a create that finds such a booking in the store
\* is answered 409 and stores nothing.
RepeatedCreateRejected ==
  [][req.op = "create"
       => /\ resp'.status = 201
               => /\ \E k \in DOMAIN bookings' \ DOMAIN bookings :
                       SameRoomAndInterval(bookings', k, req.body)
                  /\ Cardinality(DOMAIN bookings') = Cardinality(DOMAIN bookings) + 1
          /\ (/\ DayLeq(req.body.startDate, req.body.endDate)
              /\ \E k \in DOMAIN bookings : SameRoomAndInterval(bookings, k, req.body))
               => /\ resp'.op = "create"
                  /\ resp'.status = 409
                  /\ bookings' = bookings
                  /\ issued' = issued
    ]_vars

\* C33 witness: the one booking ever created is stored, and a create request for
\* the same room, customer and interval has arrived.
SameCreateArrivedAgain ==
  /\ req.op = "create"
  /\ issued = 1
  /\ DayLeq(req.body.startDate, req.body.endDate)
  /\ \E k \in DOMAIN bookings :
       /\ SameRoomAndInterval(bookings, k, req.body)
       /\ bookings[k].customerName = req.body.customerName

\* C34: an update that supplies no room id, no start date and no end date is
\* answered without regard to conflicts: 200 when the booking is stored and 404
\* when it is not, never 409; no booking's room or interval changes, and no
\* booking is added or removed.
UpdateWithoutRoomOrDatesKeepsIntervals ==
  [][(req.op = "update" /\ ~SuppliesRoomOrDates(req.body))
       => /\ resp'.op = "update"
          /\ resp'.status = IF req.id \in DOMAIN bookings THEN 200 ELSE 404
          /\ DOMAIN bookings' = DOMAIN bookings
          /\ \A k \in DOMAIN bookings :
               /\ bookings'[k].roomId = bookings[k].roomId
               /\ bookings'[k].startDate = bookings[k].startDate
               /\ bookings'[k].endDate = bookings[k].endDate
    ]_vars

\* C34 witness: an update that supplies a customer name only has arrived for a
\* booking that overlaps another booking of its room.
NameOnlyUpdateOfOverlapping ==
  /\ req.op = "update"
  /\ DOMAIN req.body = {"customerName"}
  /\ req.id \in DOMAIN bookings
  /\ OtherOverlaps(bookings, bookings[req.id], req.id)

\* C35: the form sends a create request only when the conflict flag is false and a
\* room, a customer name and dates are there; the conflict flag is false whenever
\* no room or no dates are selected; and it is false after the form was closed and
\* after a booking was created.
FlagGuardsCreateAndIsReset ==
  [][/\ event'.type = "submit" /\ createBookingMutation'.pending
          => /\ ~hasConflict
             /\ selectedRoom # ""
             /\ customerName # ""
             /\ Len(selectedDates) > 0
     /\ event'.type \in {"close", "created"} => ~hasConflict'
     /\ (selectedRoom' = "" \/ Len(selectedDates') = 0) => ~hasConflict'
    ]_vars

\* C36: the two storages give the same answers on the same bookings: for every
\* room, every pair of days and every excludeBookingId the same conflict result,
\* and for every month the same set of bookings.
StoragesAgree ==
  /\ \A roomId \in QueryRooms, s \in MonthDays, e \in MonthDays,
        exclude \in BookingIds \cup {Undefined} :
       checkBookingConflict(bookings, roomId, s, e, exclude)
         <=> MongoCheckBookingConflict(bookings, roomId, s, e, exclude)
  /\ \A year \in QueryYears, month \in QueryMonths :
       getBookingsByMonth(bookings, tz, ParseInt[year], ParseInt[month])
         = MongoGetBookingsByMonth(bookings, tz, ParseInt[year], ParseInt[month])

\* C37: a list handed to onDatesSelected becomes the page's selectedDates, and the
\* form is opened by it exactly when the list is not empty (an empty list leaves
\* the form as it was). After the form is closed, and after a booking is created,
\* the form is closed and selectedDates is empty, so that the grid, when not
\* dragging, highlights nothing.
SelectionOpensFormAndCloseClearsIt ==
  [][/\ event'.type = "dates"
          => /\ Len(selectedDates') = Len(emitted')
             /\ DatesOf(selectedDates') = DatesOf(emitted')
             /\ showBookingModal' = IF Len(emitted') > 0 THEN TRUE ELSE showBookingModal
     /\ event'.type \in {"close", "created"}
          => /\ ~showBookingModal'
             /\ selectedDates' = <<>>
             /\ ~isDragging' => displayedSelectedDates' = <<>>
    ]_vars

\* C37 witness: the form has just been closed after a list of two dates had been
\* handed to the page
ClosedAfterSelection ==
  /\ event.type = "close"
  /\ Len(emitted) = 2
  /\ ~showBookingModal
  /\ selectedDates = <<>>

\* C38: when a timer's callback pages, the month shown becomes the month next to
\* the one that was shown when the timer was started, later if it was started on
\* the last cell and earlier if on the first: after December comes January of
\* the next year, before January comes December of the year before, and the grid
\* is the grid of that month.
TimerPagesAcrossYears ==
  [][(event'.type = "timer" /\ ~gMouseUp /\ timers[FiredTimer].isDragging)
     => LET captured == timers[FiredTimer]
            year == captured.currentYear
            month == captured.currentMonth
            target == IF captured.shouldScrollNext
                      THEN IF month = 11 THEN [year |-> year + 1, month |-> 0]
                           ELSE [year |-> year, month |-> month + 1]
                      ELSE IF month = 0 THEN [year |-> year - 1, month |-> 11]
                           ELSE [year |-> year, month |-> month - 1]
        IN /\ currentDate' = target
           /\ calendarDays' = generateCalendarDays(zone, target.year, target.month)
    ]_vars

\* C38 witness: a timer started on the last cell of December 2025 has paged to
\* January 2026 during the drag
PagedIntoNextYear ==
  /\ event.type = "timer"
  /\ isDragging
  /\ currentDate = [year |-> 2026, month |-> 0]

====
